---- MODULE Spec2Model ----
(***************************************************************************)
(* Device registry and telemetry ingestion service of the Remote Device    *)
(* Manager (web-admin/server): the devices and device_logs tables, and the *)
(* request handlers of DeviceController and of routes/api.js that read and *)
(* write them.  Every `await database.*` of a handler is one atomic step;  *)
(* handlers of different requests interleave between their awaits, as they *)
(* do on the Node.js event loop.                                           *)
(***************************************************************************)
EXTENDS Integers, Sequences, FiniteSets, Bags, TLC

\* ------------------------------------------------------------------ bounds
\* Requests received in one behaviour.
MaxRequests == 3
\* Last value of the server clock (CURRENT_TIMESTAMP, whole seconds).
MaxTime == 1
\* Store accesses that fail (connection lost, disk full, busy) in one behaviour.
MaxFailures == 1
\* The Android client's clock (System.currentTimeMillis()) runs up to MaxClock.
MaxClock == 4

\* ------------------------------------------------------------------ inputs
DeviceIds == {"dev-1", "dev-x"}

Descs ==
    { [model |-> "Pixel 6", manufacturer |-> "Google", os_version |-> "13", app_version |-> "1.0"],
      [model |-> "Pixel 6", manufacturer |-> "Google", os_version |-> "13", app_version |-> "1.1"] }

Payloads == { [battery_level |-> 85, timestamp |-> 1000] }

\* ------------------------------------------------------------------- state
VARIABLES
    dbType,     \* Database.dbType: "mysql" or "sqlite" (process.env.DB_TYPE)
    devices,    \* rows of table devices
    logs,       \* rows of table device_logs
    seq,        \* the tables' autoincrement counters
    now,        \* the server clock
    inflight,   \* the handlers awaiting a store access: a bag of (position, locals)
    last,       \* the response sent most recently
    received,   \* requests received so far
    failures,   \* store accesses that have failed so far
    created,    \* per device_id: 201 responses of register so far
    synced,     \* per device_id: 200 responses of sync so far
    deleted,    \* device_ids of which a DELETE statement has removed a row
    admin_users, \* rows of table admin_users
    tokens,     \* the tokens login has returned to its callers
    client      \* the Android client: its RDMPrefs, its clock, WorkManager's queue

vars == <<dbType, devices, logs, seq, now, inflight, last, received, failures,
          created, synced, deleted, admin_users, tokens, client>>

\* The server's variables.
server == <<dbType, devices, logs, seq, now, inflight, last, received, failures,
            created, synced, deleted, admin_users, tokens>>

accounts == <<admin_users, tokens>>

store == <<devices, logs, seq>>

history == <<created, synced, deleted>>

\* ------------------------------------------------------------------- store
\* Whether the connection enforces FOREIGN KEY ... ON DELETE CASCADE.  InnoDB
\* always does.  SQLite does only after PRAGMA foreign_keys = ON, which
\* initializeSQLite never issues on the connection it opens.
ForeignKeysEnforced == dbType = "mysql"

DeviceRows(d) == {x \in devices : x.device_id = d}

LogRows(d) == {l \in logs : l.device_id = d}

HasDevice(d) == DeviceRows(d) # {}

\* Mutant: the devices table without its UNIQUE constraint.
NoUniqueConstraint(d) == FALSE

\* Mutant: the constraint rejects a second row whatever its device_id.
UniqueViolationAnyDevice(d) == devices # {}

\* device_id ... UNIQUE NOT NULL: an INSERT of d is rejected.
UniqueViolation(d) == HasDevice(d)

\* Mutant: is_active defaults to 0.
NewDeviceRowInactive(d, desc) ==
    [id |-> seq.devices + 1, device_id |-> d,
     model |-> desc.model, manufacturer |-> desc.manufacturer,
     os_version |-> desc.os_version, app_version |-> desc.app_version,
     first_seen |-> now, last_seen |-> now, is_active |-> FALSE,
     created_at |-> now, updated_at |-> now]

\* devices' columns after INSERT INTO devices (device_id, model, manufacturer,
\* os_version, app_version): the other columns take their defaults.
NewDeviceRow(d, desc) ==
    [id |-> seq.devices + 1, device_id |-> d,
     model |-> desc.model, manufacturer |-> desc.manufacturer,
     os_version |-> desc.os_version, app_version |-> desc.app_version,
     first_seen |-> now, last_seen |-> now, is_active |-> TRUE,
     created_at |-> now, updated_at |-> now]

\* MySQL's updated_at ... ON UPDATE CURRENT_TIMESTAMP: set when an UPDATE
\* changes some column of the row.  SQLite's column has only its default.
OnUpdate(old, new) ==
    IF dbType = "mysql" /\ new # old THEN [new EXCEPT !.updated_at = now] ELSE new

\* Mutant: the update also rewrites first_seen (an INSERT OR REPLACE upsert).
RegisterUpdateResetsFirstSeen(x, desc) ==
    OnUpdate(x, [x EXCEPT !.model = desc.model, !.manufacturer = desc.manufacturer,
                          !.os_version = desc.os_version, !.app_version = desc.app_version,
                          !.first_seen = now, !.last_seen = now, !.is_active = TRUE])

\* UPDATE devices SET model, manufacturer, os_version, app_version,
\* last_seen = CURRENT_TIMESTAMP, is_active = 1 WHERE device_id = ?
RegisterUpdateRow(x, desc) ==
    OnUpdate(x, [x EXCEPT !.model = desc.model, !.manufacturer = desc.manufacturer,
                          !.os_version = desc.os_version, !.app_version = desc.app_version,
                          !.last_seen = now, !.is_active = TRUE])

\* Mutant: the sync's UPDATE rewrites first_seen as well.
SyncUpdateResetsFirstSeen(x) ==
    OnUpdate(x, [x EXCEPT !.first_seen = now, !.last_seen = now, !.is_active = TRUE])

\* UPDATE devices SET last_seen = CURRENT_TIMESTAMP, is_active = 1 WHERE device_id = ?
SyncUpdateRow(x) == OnUpdate(x, [x EXCEPT !.last_seen = now, !.is_active = TRUE])

\* Mutant: the heartbeat writes first_seen as well.
HeartbeatResetsFirstSeen(x) == OnUpdate(x, [x EXCEPT !.first_seen = now, !.last_seen = now])

\* Mutant: the heartbeat writes the wrong column, first_seen.
HeartbeatWritesFirstSeen(x) == OnUpdate(x, [x EXCEPT !.first_seen = now])

\* UPDATE devices SET last_seen = CURRENT_TIMESTAMP WHERE device_id = ?
HeartbeatUpdateRow(x) == OnUpdate(x, [x EXCEPT !.last_seen = now])

\* Mutant: the log's id is not drawn from the autoincrement counter.
NewLogRowReusesId(d, p) ==
    [id |-> 1, device_id |-> d,
     battery_level |-> p.battery_level, timestamp |-> p.timestamp,
     created_at |-> now]

\* device_logs' columns after the INSERT of syncDeviceData.
NewLogRow(d, p) ==
    [id |-> seq.device_logs + 1, device_id |-> d,
     battery_level |-> p.battery_level, timestamp |-> p.timestamp,
     created_at |-> now]

\* DELETE FROM devices WHERE device_id = ?: the log rows that remain.
LogsAfterDelete(d) == IF ForeignKeysEnforced THEN logs \ LogRows(d) ELSE logs

\* Mutant: ORDER BY created_at DESC.
OrderedLogsByReceipt(d) ==
    LET S == LogRows(d)
        n == Cardinality(S)
    IN  {s \in [1..n -> S] :
            /\ \A i, j \in 1..n : i # j => s[i] # s[j]
            /\ \A i, j \in 1..n : i < j => s[i].created_at >= s[j].created_at}

\* SELECT ... FROM device_logs WHERE device_id = ? ORDER BY timestamp DESC:
\* every order of the rows SQL may return (rows of equal timestamp in any order).
OrderedLogs(d) ==
    LET S == LogRows(d)
        n == Cardinality(S)
    IN  {s \in [1..n -> S] :
            /\ \A i, j \in 1..n : i # j => s[i] # s[j]
            /\ \A i, j \in 1..n : i < j => s[i].timestamp >= s[j].timestamp}

\* Mutant: LIMIT without OFFSET.
PageFromStart(s, limit, offset) ==
    SubSeq(s, 1, IF limit < Len(s) THEN limit ELSE Len(s))

\* LIMIT ? OFFSET ? of a result.  SQLite reads a negative LIMIT as no limit
\* and a negative OFFSET as 0; MySQL rejects both (StatementRejected).
Page(s, limit, offset) ==
    LET from == IF offset < 0 THEN 0 ELSE offset
        upto == IF limit < 0 \/ from + limit > Len(s) THEN Len(s) ELSE from + limit
    IN  IF from >= Len(s) THEN <<>> ELSE SubSeq(s, from + 1, upto)

\* MySQL's answer to LIMIT ? OFFSET ? with a negative argument: an error.
StatementRejected(limit, offset) == dbType = "mysql" /\ (limit < 0 \/ offset < 0)

\* Math.ceil(total / limit) as res.json writes it: JSON has no Infinity or
\* NaN, a division by 0 is written null.
Ceil(total, limit) ==
    IF limit > 0 THEN (total + limit - 1) \div limit
    ELSE IF limit < 0 THEN 0 - (total \div (0 - limit))
    ELSE "null"

\* const { page = 1, limit = 100 } = req.query of getDeviceDetails.
DefaultPage == 1
DefaultLimit == 100

\* ---------------------------------------------------------------- requests
\* The handlers between two awaits, each with its position (pc) and locals.
Add(q) == inflight (+) SetToBag({q})

Remove(q) == inflight (-) SetToBag({q})

Move(q, q2) == (inflight (-) SetToBag({q})) (+) SetToBag({q2})

Handlers(op, pc) == {q \in BagToSet(inflight) : q.op = op /\ q.pc = pc}

CanReceive == received < MaxRequests

CanFail == failures < MaxFailures

\* A request that carries no token (Authorization header, cookie and query empty).
NoToken == [id |-> 0, username |-> "", iat |-> 0, exp |-> 0, secret |-> ""]

\* res.status(code).json(...) of a handler: the status, data.status, error_code,
\* and for getDeviceDetails data.logs and data.pagination.  err is the error
\* the handler's catch block caught, found the row its existence check read,
\* same whether a register found its descriptors already stored, at the
\* server time of the response.  message is the body's message where a claim
\* reads it, token the data.token of login, data the data of the list and
\* statistics responses.
Response(op, d, code, status, error_code, err) ==
    [op |-> op, device_id |-> d, code |-> code, status |-> status,
     error_code |-> error_code, err |-> err, found |-> FALSE, same |-> FALSE,
     at |-> now, logs |-> <<>>, total |-> 0, pages |-> 0,
     message |-> "", token |-> NoToken, data |-> <<>>]

NoResponse == [Response("none", "", 0, "", "", "") EXCEPT !.at = 0]

\* The catch block's error_code of each handler.
FailureCode(op) ==
    CASE op = "register" -> "REGISTRATION_FAILED"
      [] op = "sync" -> "SYNC_FAILED"
      [] OTHER -> ""

\* message of every catch block's 500.
InternalError == "Internal server error"

\* Mutant: the body carries the error's own message.
CaughtRaw(op, d, err) ==
    [Response(op, d, 500, "", FailureCode(op), err) EXCEPT !.message = err]

\* catch (error) { console.error(..., error); return res.status(500).json(...) }
Caught(op, d, err) ==
    [Response(op, d, 500, "", FailureCode(op), err) EXCEPT !.message = InternalError]

DescOf(x) ==
    [model |-> x.model, manufacturer |-> x.manufacturer,
     os_version |-> x.os_version, app_version |-> x.app_version]

\* bcrypt.hash(password, 10): a salted one-way digest of the password.
Hash(password, salt) == [alg |-> "bcrypt", cost |-> 10, salt |-> salt, digest |-> <<salt, password>>]

\* Mutant: every password compares equal.
CompareAnything(password, hash) == hash.alg = "bcrypt"

\* bcrypt.compare(password, hash): hashes password with the salt of hash.
Compare(password, hash) == Hash(password, hash.salt) = hash

\* process.env.ADMIN_USERNAME || 'admin', process.env.ADMIN_PASSWORD || 'admin123'
AdminUsername == "admin"

AdminPassword == "admin123"

\* The row createDefaultAdmin inserts when the server starts.
DefaultAdmin ==
    [id |-> 1, username |-> AdminUsername, password_hash |-> Hash(AdminPassword, "s1"),
     is_active |-> TRUE, last_login |-> -1]

\* The Android client when the app is first started: RDMPrefs holds nothing
\* (getBoolean(.., false), getLong(.., 0)), WorkManager has no work of the app.
FreshInstall ==
    [monitoring_active |-> FALSE, scheduled |-> FALSE,
     last_sync |-> 0, result |-> "none", log |-> "none", clock |-> 1]

Init ==
    /\ client = FreshInstall
    /\ admin_users = {DefaultAdmin}
    /\ tokens = {}
    /\ dbType \in {"mysql", "sqlite"}
    /\ devices = {}
    /\ logs = {}
    /\ seq = [devices |-> 0, device_logs |-> 0]
    /\ now = 0
    /\ inflight = EmptyBag
    /\ last = NoResponse
    /\ received = 0
    /\ failures = 0
    /\ created = [d \in DeviceIds |-> 0]
    /\ synced = [d \in DeviceIds |-> 0]
    /\ deleted = {}

\* CURRENT_TIMESTAMP moves on.
Tick ==
    /\ now < MaxTime
    /\ now' = now + 1
    /\ UNCHANGED <<dbType, client, accounts, store, inflight, last, received, failures, history>>

\* A store access of handler q throws: its catch block answers 500.
Fails(q) ==
    /\ CanFail
    /\ failures' = failures + 1
    /\ inflight' = Remove(q)
    /\ last' = Caught(q.op, q.device_id, "STORAGE")
    /\ UNCHANGED <<dbType, client, accounts, store, now, received, history>>

\* The first store access of a request just received throws.
FailsAtOnce(op, d) ==
    /\ CanFail
    /\ failures' = failures + 1
    /\ last' = Caught(op, d, "STORAGE")
    /\ UNCHANGED <<dbType, client, accounts, store, now, inflight, history>>

\* -------------------------------------------------- registerDevice
\* existingDevice = await database.get('SELECT id FROM devices WHERE device_id = ?')
RegisterCheck(d, desc) ==
    /\ CanReceive
    /\ received' = received + 1
    /\ \/ /\ inflight' = Add([op |-> "register", pc |-> "write", device_id |-> d,
                              desc |-> desc, found |-> HasDevice(d)])
          /\ UNCHANGED <<dbType, client, accounts, store, now, last, failures, history>>
       \/ FailsAtOnce("register", d)

\* if (existingDevice) UPDATE devices ... -> 200 'updated'
RegisterUpdate(q) ==
    /\ q \in Handlers("register", "write")
    /\ q.found
    /\ \/ /\ devices' = {IF x.device_id = q.device_id
                           THEN RegisterUpdateRow(x, q.desc) ELSE x : x \in devices}
          /\ inflight' = Remove(q)
          /\ last' = [Response("register", q.device_id, 200, "updated", "", "")
                        EXCEPT !.found = TRUE,
                               !.same = \E x \in DeviceRows(q.device_id) : DescOf(x) = q.desc]
          /\ UNCHANGED <<dbType, client, accounts, logs, seq, now, received, failures, history>>
       \/ Fails(q)

\* Mutant: a registration also writes a first telemetry row.
RegisterInsertSeedsLog(q) ==
    /\ q \in Handlers("register", "write")
    /\ ~q.found
    /\ ~UniqueViolation(q.device_id)
    /\ devices' = devices \cup {NewDeviceRow(q.device_id, q.desc)}
    /\ logs' = logs \cup {[id |-> seq.device_logs + 1, device_id |-> q.device_id,
                           battery_level |-> 0, timestamp |-> 0, created_at |-> now]}
    /\ seq' = [devices |-> seq.devices + 1, device_logs |-> seq.device_logs + 1]
    /\ inflight' = Remove(q)
    /\ last' = Response("register", q.device_id, 201, "registered", "", "")
    /\ created' = [created EXCEPT ![q.device_id] = @ + 1]
    /\ UNCHANGED <<dbType, client, accounts, now, received, failures, synced, deleted>>

\* else INSERT INTO devices ... -> 201 'registered'; a rejected INSERT throws.
RegisterInsert(q) ==
    /\ q \in Handlers("register", "write")
    /\ ~q.found
    /\ \/ /\ ~UniqueViolation(q.device_id)
          /\ devices' = devices \cup {NewDeviceRow(q.device_id, q.desc)}
          /\ seq' = [seq EXCEPT !.devices = @ + 1]
          /\ inflight' = Remove(q)
          /\ last' = Response("register", q.device_id, 201, "registered", "", "")
          /\ created' = [created EXCEPT ![q.device_id] = @ + 1]
          /\ UNCHANGED <<dbType, client, accounts, logs, now, received, failures, synced, deleted>>
       \/ /\ UniqueViolation(q.device_id)
          /\ inflight' = Remove(q)
          /\ last' = Caught("register", q.device_id, "UNIQUE")
          /\ UNCHANGED <<dbType, client, accounts, store, now, received, failures, history>>
       \/ Fails(q)

\* -------------------------------------------------- syncDeviceData
\* Mutant: the handler inserts the log without verifying the device.
SyncDeviceAssumed(d) == TRUE

\* device = await database.get('SELECT id FROM devices WHERE device_id = ?')
SyncDeviceFound(d) == HasDevice(d)

\* Verify device exists; if (!device) -> 404 DEVICE_NOT_FOUND
SyncVerify(d, p) ==
    /\ CanReceive
    /\ received' = received + 1
    /\ \/ /\ SyncDeviceFound(d)
          /\ inflight' = Add([op |-> "sync", pc |-> "insert", device_id |-> d, payload |-> p])
          /\ UNCHANGED <<dbType, client, accounts, store, now, last, failures, history>>
       \/ /\ ~SyncDeviceFound(d)
          /\ last' = Response("sync", d, 404, "", "DEVICE_NOT_FOUND", "")
          /\ UNCHANGED <<dbType, client, accounts, store, now, inflight, failures, history>>
       \/ FailsAtOnce("sync", d)

\* INSERT INTO device_logs ...; with foreign keys enforced the INSERT of a log
\* of a missing device is rejected.
SyncInsertLog(q) ==
    /\ q \in Handlers("sync", "insert")
    /\ \/ /\ ~(ForeignKeysEnforced /\ ~HasDevice(q.device_id))
          /\ logs' = logs \cup {NewLogRow(q.device_id, q.payload)}
          /\ seq' = [seq EXCEPT !.device_logs = @ + 1]
          /\ inflight' = Move(q, [q EXCEPT !.pc = "update"])
          /\ UNCHANGED <<dbType, client, accounts, devices, now, last, received, failures, history>>
       \/ /\ ForeignKeysEnforced /\ ~HasDevice(q.device_id)
          /\ inflight' = Remove(q)
          /\ last' = Caught("sync", q.device_id, "FOREIGN_KEY")
          /\ UNCHANGED <<dbType, client, accounts, store, now, received, failures, history>>
       \/ Fails(q)

\* UPDATE devices SET last_seen, is_active ... -> 200 'completed'
SyncUpdate(q) ==
    /\ q \in Handlers("sync", "update")
    /\ \/ /\ devices' = {IF x.device_id = q.device_id THEN SyncUpdateRow(x) ELSE x : x \in devices}
          /\ inflight' = Remove(q)
          /\ last' = [Response("sync", q.device_id, 200, "completed", "", "") EXCEPT !.found = TRUE]
          /\ synced' = [synced EXCEPT ![q.device_id] = @ + 1]
          /\ UNCHANGED <<dbType, client, accounts, logs, seq, now, received, failures, created, deleted>>
       \/ Fails(q)

\* -------------------------------------------------- POST /api/heartbeat
\* UPDATE devices SET last_seen = CURRENT_TIMESTAMP WHERE device_id = ? -> 200
Heartbeat(d) ==
    /\ CanReceive
    /\ received' = received + 1
    /\ \/ /\ devices' = {IF x.device_id = d THEN HeartbeatUpdateRow(x) ELSE x : x \in devices}
          /\ last' = Response("heartbeat", d, 200, "", "", "")
          /\ UNCHANGED <<dbType, client, accounts, logs, seq, now, inflight, failures, history>>
       \/ FailsAtOnce("heartbeat", d)

\* -------------------------------------------------- deleteDevice
\* device = await database.get('SELECT id ...'); if (!device) -> 404
DeleteCheck(d) ==
    /\ CanReceive
    /\ received' = received + 1
    /\ \/ /\ HasDevice(d)
          /\ inflight' = Add([op |-> "delete", pc |-> "exec", device_id |-> d])
          /\ UNCHANGED <<dbType, client, accounts, store, now, last, failures, history>>
       \/ /\ ~HasDevice(d)
          /\ last' = Response("delete", d, 404, "", "", "")
          /\ UNCHANGED <<dbType, client, accounts, store, now, inflight, failures, history>>
       \/ FailsAtOnce("delete", d)

\* DELETE FROM devices WHERE device_id = ? -> 200
DeleteExec(q) ==
    /\ q \in Handlers("delete", "exec")
    /\ \/ /\ devices' = devices \ DeviceRows(q.device_id)
          /\ logs' = LogsAfterDelete(q.device_id)
          /\ deleted' = IF HasDevice(q.device_id) THEN deleted \cup {q.device_id} ELSE deleted
          /\ inflight' = Remove(q)
          /\ last' = [Response("delete", q.device_id, 200, "", "", "") EXCEPT !.found = TRUE]
          /\ UNCHANGED <<dbType, client, accounts, seq, now, received, failures, created, synced>>
       \/ Fails(q)

\* -------------------------------------------------- getDeviceDetails
\* device = await database.get('SELECT * FROM devices ...'); if (!device) -> 404
\* page and limit are req.query's.
DetailRequest(d, page, limit) ==
    /\ CanReceive
    /\ received' = received + 1
    /\ \/ /\ HasDevice(d)
          /\ \E x \in DeviceRows(d) :
                inflight' = Add([op |-> "detail", pc |-> "logs", device_id |-> d, device |-> x,
                                 page |-> page, limit |-> limit])
          /\ UNCHANGED <<dbType, client, accounts, store, now, last, failures, history>>
       \/ /\ ~HasDevice(d)
          /\ last' = Response("detail", d, 404, "", "", "")
          /\ UNCHANGED <<dbType, client, accounts, store, now, inflight, failures, history>>
       \/ FailsAtOnce("detail", d)

\* The request without page and limit: const { page = 1, limit = 100 } = req.query
DetailDevice(d) == DetailRequest(d, DefaultPage, DefaultLimit)

\* logs = await database.all('SELECT * FROM device_logs ... LIMIT ? OFFSET ?')
DetailLogs(q) ==
    /\ q \in Handlers("detail", "logs")
    /\ \/ /\ StatementRejected(q.limit, (q.page - 1) * q.limit)
          /\ inflight' = Remove(q)
          /\ last' = Caught("detail", q.device_id, "SQL")
          /\ UNCHANGED <<dbType, client, accounts, store, now, received, failures, history>>
       \/ /\ ~StatementRejected(q.limit, (q.page - 1) * q.limit)
          /\ \E s \in OrderedLogs(q.device_id) :
                inflight' = Move(q, [op |-> "detail", pc |-> "count", device_id |-> q.device_id,
                                     device |-> q.device, page |-> q.page, limit |-> q.limit,
                                     logs |-> Page(s, q.limit, (q.page - 1) * q.limit)])
          /\ UNCHANGED <<dbType, client, accounts, store, now, last, received, failures, history>>
       \/ Fails(q)

\* logCount = await database.get('SELECT COUNT(*) ...') -> 200
DetailCount(q) ==
    /\ q \in Handlers("detail", "count")
    /\ \/ /\ inflight' = Remove(q)
          /\ last' = [Response("detail", q.device_id, 200, "", "", "")
                        EXCEPT !.found = TRUE, !.logs = q.logs,
                               !.total = Cardinality(LogRows(q.device_id)),
                               !.pages = Ceil(Cardinality(LogRows(q.device_id)), q.limit),
                               !.data = [page |-> q.page, limit |-> q.limit, device |-> q.device]]
          /\ UNCHANGED <<dbType, client, accounts, store, now, received, failures, history>>
       \/ Fails(q)

Next ==
    \/ Tick
    \/ \E d \in DeviceIds, desc \in Descs : RegisterCheck(d, desc)
    \/ \E q \in BagToSet(inflight) : RegisterUpdate(q)
    \/ \E q \in BagToSet(inflight) : RegisterInsert(q)
    \/ \E d \in DeviceIds, p \in Payloads : SyncVerify(d, p)
    \/ \E q \in BagToSet(inflight) : SyncInsertLog(q)
    \/ \E q \in BagToSet(inflight) : SyncUpdate(q)
    \/ \E d \in DeviceIds : Heartbeat(d)
    \/ \E d \in DeviceIds : DeleteCheck(d)
    \/ \E q \in BagToSet(inflight) : DeleteExec(q)
    \/ \E d \in DeviceIds : DetailDevice(d)
    \/ \E q \in BagToSet(inflight) : DetailLogs(q)
    \/ \E q \in BagToSet(inflight) : DetailCount(q)

Spec == Init /\ [][Next]_vars

\* ------------------------------------------------------------------ claims
RowsAfter(d) == {y \in devices' : y.device_id = d}

LogsAfter(d) == {l \in logs' : l.device_id = d}

\* The store access of the step did not throw a storage error.
Served == failures' = failures

(* C1: in every reachable state, whatever register, sync, heartbeat and delete
   requests have run and however they interleaved, at most one row of devices
   has any given device_id. *)
UniqueDeviceId == \A x, y \in devices : x.device_id = y.device_id => x = y

\* A register of a device that has its row was answered 'updated'.
UpsertHappened ==
    /\ last.op = "register" /\ last.code = 200
    /\ Cardinality(DeviceRows(last.device_id)) = 1

(* C2: for a device_id that was never deleted, the number of its rows equals
   the number of register calls answered 201, and both are at most one; once a
   register of it has been answered without a storage failure, both are one.
   So registers racing on a never-seen device_id leave exactly one row and
   exactly one of them observes the created outcome. *)
OneRowOneCreated ==
    /\ \A d \in DeviceIds \ deleted :
          Cardinality(DeviceRows(d)) = created[d] /\ created[d] <= 1
    /\ (last.op = "register" /\ last.err # "STORAGE" /\ last.device_id \notin deleted)
          => created[last.device_id] = 1

\* Two registers both found no row; the second INSERT was rejected.
RegisterRaceHappened ==
    /\ last.op = "register" /\ last.err = "UNIQUE" /\ ~last.found
    /\ last.device_id \notin deleted
    /\ created[last.device_id] = 1

(* C3: a register whose existence check found no row is answered 201 (created);
   a register whose check found the row, the row not deleted since, is answered
   200 'updated', leaves first_seen unchanged and sets last_seen to the server
   time, not before its old value. *)
RegisterCreatedThenUpdated ==
    [][\A q \in BagToSet(inflight) :
         /\ (RegisterInsert(q) /\ Served) => last'.code = 201
         /\ (RegisterUpdate(q) /\ Served /\ HasDevice(q.device_id)) =>
               /\ last'.code = 200 /\ last'.status = "updated"
               /\ \A x \in DeviceRows(q.device_id) :
                     \E y \in RowsAfter(q.device_id) :
                        /\ y.id = x.id /\ y.first_seen = x.first_seen
                        /\ y.last_seen = now /\ y.last_seen >= x.last_seen]_vars

(* C4: a sync for a device_id that has no row is answered 404 DEVICE_NOT_FOUND
   and changes nothing: no log row, no device row, no handler left running. *)
SyncUnknownDeviceRejected ==
    [][\A d \in DeviceIds, p \in Payloads :
         (SyncVerify(d, p) /\ Served /\ ~HasDevice(d)) =>
            /\ last'.op = "sync" /\ last'.device_id = d
            /\ last'.code = 404 /\ last'.error_code = "DEVICE_NOT_FOUND"
            /\ UNCHANGED <<devices, logs, seq>>
            /\ inflight' = inflight]_vars

\* A sync of an unregistered device was rejected while another device is registered.
SyncRejectedHappened ==
    /\ last.op = "sync" /\ last.code = 404
    /\ ~HasDevice(last.device_id)
    /\ devices # {}

(* C5: the two effects of a sync are atomic: in no reachable state is a log row
   stored whose device has not had its activity bumped (a row present, active,
   last_seen not before the log's created_at). *)
SyncEffectsAtomic ==
    \A l \in logs :
       \E x \in devices :
          x.device_id = l.device_id /\ x.is_active /\ x.last_seen >= l.created_at

(* C6: in every reachable state every log row references a device_id that has
   a row in devices. *)
NoOrphanLog == \A l \in logs : HasDevice(l.device_id)

(* C7: a successful delete leaves no row and no log row of its device_id, and a
   detail query of a device_id without a row is answered 404; a delete of a
   device_id without a row is answered 404 and changes nothing. *)
DeleteRemovesLogs ==
    [][/\ \A q \in BagToSet(inflight) :
            (DeleteExec(q) /\ Served) =>
               /\ last'.code = 200
               /\ RowsAfter(q.device_id) = {} /\ LogsAfter(q.device_id) = {}
       /\ \A d \in DeviceIds :
            /\ (DetailDevice(d) /\ Served /\ ~HasDevice(d)) => last'.code = 404
            /\ (DeleteCheck(d) /\ Served /\ ~HasDevice(d)) =>
                  last'.code = 404 /\ UNCHANGED <<devices, logs, seq>>]_vars

(* C8: for a registered, never deleted device with no sync running, the number
   of its log rows is the number of its syncs answered 200; and when the latest
   response is such a sync, last_seen is the server time of that response. *)
SyncCountMatches ==
    /\ \A d \in DeviceIds \ deleted :
          (HasDevice(d) /\ ~\E q \in BagToSet(inflight) : q.op = "sync" /\ q.device_id = d)
             => Cardinality(LogRows(d)) = synced[d]
    /\ (last.op = "sync" /\ last.code = 200 /\ last.device_id \notin deleted)
          => \A x \in DeviceRows(last.device_id) : x.last_seen = last.at

(* C9: a register that carries the descriptors already stored for its
   device_id leaves that row's descriptors, first_seen and created_at as they
   were and is_active true, and leaves a single row; last_seen does not go back. *)
RegisterIdempotent ==
    [][\A q \in BagToSet(inflight) :
         ( /\ RegisterUpdate(q) \/ RegisterInsert(q)
           /\ HasDevice(q.device_id)
           /\ \A x \in DeviceRows(q.device_id) : DescOf(x) = q.desc )
         => /\ Cardinality(RowsAfter(q.device_id)) = 1
            /\ \A x \in DeviceRows(q.device_id) :
                  \E y \in RowsAfter(q.device_id) :
                     /\ y.id = x.id /\ DescOf(y) = DescOf(x)
                     /\ y.first_seen = x.first_seen /\ y.created_at = x.created_at
                     /\ y.is_active /\ y.last_seen >= x.last_seen]_vars

\* A register with the stored descriptors was answered 'updated' at a later time.
SameRegisterHappened ==
    /\ last.op = "register" /\ last.code = 200 /\ last.same
    /\ \E x \in DeviceRows(last.device_id) : x.first_seen < x.last_seen

(* C10: no register is answered with a failure because its INSERT lost a
   uniqueness conflict. *)
ConflictNeverSurfaced == ~(last.op = "register" /\ last.code = 500 /\ last.err = "UNIQUE")

\* The rows of devices' are the rows of devices, each either unchanged or,
\* if of device_id d, changed as Changed(x, y) allows.
OnlyRowsOf(d, Changed(_, _)) ==
    /\ Cardinality(devices') = Cardinality(devices)
    /\ \A x \in devices :
          \E y \in devices' :
             /\ y.id = x.id
             /\ IF x.device_id = d THEN Changed(x, y) ELSE y = x

HeartbeatOnlyLastSeen(x, y) == y = [x EXCEPT !.last_seen = now]

HeartbeatLastSeenAndUpdatedAt(x, y) ==
    /\ [y EXCEPT !.updated_at = x.updated_at] = [x EXCEPT !.last_seen = now]
    /\ y.updated_at \in {x.updated_at, now}
    /\ (dbType = "sqlite" => y.updated_at = x.updated_at)

(* C17 as stated: a heartbeat of a device_id without a row leaves the store
   unchanged; a heartbeat of an existing device changes only last_seen of
   that device's row. *)
HeartbeatChangesOnlyLastSeen ==
    [][\A d \in DeviceIds :
         (Heartbeat(d) /\ Served) =>
            /\ UNCHANGED <<logs, seq>>
            /\ OnlyRowsOf(d, HeartbeatOnlyLastSeen)]_vars

(* C17 as amended: a heartbeat of a device_id without a row leaves the store
   unchanged; a heartbeat of an existing device sets that row's last_seen to
   the server time and, on MySQL only, its updated_at (ON UPDATE
   CURRENT_TIMESTAMP); every other column, every other row and the log are
   unchanged. *)
HeartbeatFrame ==
    [][\A d \in DeviceIds :
         (Heartbeat(d) /\ Served) =>
            /\ UNCHANGED <<logs, seq>>
            /\ (~HasDevice(d) => devices' = devices)
            /\ OnlyRowsOf(d, HeartbeatLastSeenAndUpdatedAt)]_vars

\* A heartbeat of a registered device was answered after the clock moved.
HeartbeatHappened ==
    /\ last.op = "heartbeat" /\ last.code = 200
    /\ \E x \in DeviceRows(last.device_id) : x.last_seen = last.at /\ x.first_seen < x.last_seen

(* C18: no step of a register request, creating or updating, adds, changes
   or removes a row of device_logs. *)
RegisterLeavesLogs ==
    [][/\ \A d \in DeviceIds, desc \in Descs : RegisterCheck(d, desc) => logs' = logs
       /\ \A q \in BagToSet(inflight) :
             (RegisterUpdate(q) \/ RegisterInsert(q)) => logs' = logs]_vars

\* A register created a device and a later one updated a device that has logs.
RegisterWithLogsHappened ==
    /\ last.op = "register" /\ last.code = 200
    /\ LogRows(last.device_id) # {}

(* C19: across every step a log row keeps its fields (the row of a given id is
   the same row), a new log row appears only in the INSERT step of a sync and
   with a fresh id, and a log row disappears only in a step that removes the
   device row it references. *)
LogsAppendOnly ==
    [][/\ \A l \in logs, m \in logs' : m.id = l.id => m = l
       /\ \A l \in logs \ logs' :
             HasDevice(l.device_id) /\ ~\E y \in devices' : y.device_id = l.device_id
       /\ (logs' \ logs # {}) =>
             \E q \in BagToSet(inflight) :
                /\ SyncInsertLog(q)
                /\ logs' \ logs = {NewLogRow(q.device_id, q.payload)}
                /\ \A l \in logs : l.id <= seq.device_logs]_vars

\* Two syncs have written log rows at different server times.
TwoLogsHappened ==
    \E l, m \in logs : l.id # m.id /\ l.created_at # m.created_at

(* C20: in every reachable state every row of devices has is_active true. *)
AlwaysActive == \A x \in devices : x.is_active

\* A device was registered, synced, and then touched by a heartbeat.
ActiveAfterAllWrites ==
    /\ last.op = "heartbeat" /\ last.code = 200
    /\ synced[last.device_id] >= 1
    /\ HasDevice(last.device_id)

\* ------------------------------------------------------------------------
\* The device routes of routes/api.js behind their middleware chain:
\* validateApiKey, the express-validator rules, the handler.

\* process.env.API_KEY || 'rdm-client-key-2024'
ExpectedApiKey == "rdm-client-key-2024"

\* What a request carries in the x-api-key header and in ?api_key= ("": absent).
Credentials ==
    {[header |-> "", query |-> ""],
     [header |-> ExpectedApiKey, query |-> ""],
     [header |-> "", query |-> ExpectedApiKey],
     [header |-> "rdm-client-key-2023", query |-> ""],
     [header |-> "rdm-client-key-2023", query |-> ExpectedApiKey]}

\* Request bodies of POST /register: the valid ones and one without a model.
RegisterBodies ==
    {[device_id |-> d, model |-> desc.model, manufacturer |-> desc.manufacturer,
      os_version |-> desc.os_version, app_version |-> desc.app_version] :
        d \in DeviceIds, desc \in Descs}
    \cup {[device_id |-> "dev-1", model |-> "", manufacturer |-> "Google",
           os_version |-> "13", app_version |-> "1.0"]}

\* A JSON value of a request body, as the validators see it: absent, a number
\* (in tenths, so that 1.5 is Num(15)), or some text that is no number.
Absent == [is |-> "absent", tenths |-> 0]

Num(tenths) == [is |-> "number", tenths |-> tenths]

Text == [is |-> "text", tenths |-> 0]

\* A body of POST /sync.
SyncBody(d, battery_level, latitude, longitude, timestamp) ==
    [device_id |-> d, battery_level |-> battery_level, latitude |-> latitude,
     longitude |-> longitude, timestamp |-> timestamp]

\* Request bodies of POST /sync: the valid ones and one with a negative timestamp.
SyncBodies ==
    {SyncBody(d, Num(10 * p.battery_level), Num(485), Absent, Num(10 * p.timestamp)) :
        d \in DeviceIds, p \in Payloads}
    \cup {SyncBody("dev-1", Num(850), Num(485), Absent, Num(-10))}

\* const apiKey = req.headers['x-api-key'] || req.query.api_key
SuppliedKey(c) == IF c.header # "" THEN c.header ELSE c.query

\* Mutant: any key that is present is accepted.
ValidateApiKeyPresentOnly(apiKey) ==
    IF apiKey = "" THEN "MISSING_API_KEY" ELSE "next"

\* AuthMiddleware.validateApiKey: the error_code of its 401, or "next".
ValidateApiKey(apiKey) ==
    IF apiKey = "" THEN "MISSING_API_KEY"
    ELSE IF apiKey # ExpectedApiKey THEN "INVALID_API_KEY"
    ELSE "next"

\* deviceRegistrationValidation: device_id, model, manufacturer notEmpty.
ValidRegistration(body) ==
    body.device_id # "" /\ body.model # "" /\ body.manufacturer # ""

\* isInt({ min, max }) of express-validator
IsInt(v, min, max) ==
    v.is = "number" /\ v.tenths % 10 = 0 /\ 10 * min <= v.tenths /\ v.tenths <= 10 * max

\* isFloat({ min, max }) of express-validator
IsFloat(v, min, max) ==
    v.is = "number" /\ 10 * min <= v.tenths /\ v.tenths <= 10 * max

\* isInt({ min }) of express-validator
IsIntFrom(v, min) == v.is = "number" /\ v.tenths % 10 = 0 /\ 10 * min <= v.tenths

\* Mutant: the rules of the optional fields are not applied.
ValidSyncRequiredOnly(body) ==
    /\ body.device_id # ""
    /\ IsIntFrom(body.timestamp, 0)

\* deviceSyncValidation: device_id notEmpty; battery_level, latitude and
\* longitude in their ranges if present; timestamp an integer >= 0.
ValidSync(body) ==
    /\ body.device_id # ""
    /\ body.battery_level = Absent \/ IsInt(body.battery_level, 0, 100)
    /\ body.latitude = Absent \/ IsFloat(body.latitude, -90, 90)
    /\ body.longitude = Absent \/ IsFloat(body.longitude, -180, 180)
    /\ IsIntFrom(body.timestamp, 0)

\* A middleware or the handler's validationResult check answers without
\* touching the store.
Reject(op, d, code, error_code) ==
    /\ CanReceive
    /\ received' = received + 1
    /\ last' = Response(op, d, code, "", error_code, "")
    /\ UNCHANGED <<dbType, client, accounts, store, now, inflight, failures, history>>

\* router.post('/register', validateApiKey, deviceRegistrationValidation, registerDevice)
ApiRegister(c, body) ==
    LET v == ValidateApiKey(SuppliedKey(c)) IN
    IF v # "next" THEN Reject("register", body.device_id, 401, v)
    ELSE IF ~ValidRegistration(body) THEN Reject("register", body.device_id, 400, "")
    ELSE RegisterCheck(body.device_id, DescOf(body))

\* router.post('/sync', validateApiKey, deviceSyncValidation, syncDeviceData)
ApiSync(c, body) ==
    LET v == ValidateApiKey(SuppliedKey(c)) IN
    IF v # "next" THEN Reject("sync", body.device_id, 401, v)
    ELSE IF ~ValidSync(body) THEN Reject("sync", body.device_id, 400, "")
    ELSE SyncVerify(body.device_id,
                    [battery_level |-> body.battery_level.tenths \div 10,
                     timestamp |-> body.timestamp.tenths \div 10])

\* router.post('/heartbeat', validateApiKey, [...], handler): the handler never
\* reads validationResult.
ApiHeartbeat(c, d) ==
    LET v == ValidateApiKey(SuppliedKey(c)) IN
    IF v # "next" THEN Reject("heartbeat", d, 401, v)
    ELSE Heartbeat(d)

NextApi ==
    \/ \E c \in Credentials, b \in RegisterBodies : ApiRegister(c, b)
    \/ \E q \in BagToSet(inflight) : RegisterUpdate(q)
    \/ \E q \in BagToSet(inflight) : RegisterInsert(q)
    \/ \E c \in Credentials, b \in SyncBodies : ApiSync(c, b)
    \/ \E q \in BagToSet(inflight) : SyncInsertLog(q)
    \/ \E q \in BagToSet(inflight) : SyncUpdate(q)
    \/ \E c \in Credentials, d \in DeviceIds : ApiHeartbeat(c, d)

SpecApi == Init /\ [][NextApi]_vars

\* The request is answered 401 with error_code and nothing else happens.
Refused(op, d, error_code) ==
    /\ last'.op = op /\ last'.device_id = d
    /\ last'.code = 401 /\ last'.error_code = error_code
    /\ UNCHANGED <<devices, logs, seq, inflight>>

\* The error_code the claim gives a request carrying this key.
KeyError(key) == IF key = "" THEN "MISSING_API_KEY" ELSE "INVALID_API_KEY"

(* C11: a register, sync or heartbeat request without a key is answered 401
   MISSING_API_KEY and one with a key other than the configured value 401
   INVALID_API_KEY, whatever its body, valid or not; in both cases no row of
   devices or device_logs changes and no handler starts. *)
ApiKeyGate ==
    [][\A c \in Credentials :
         SuppliedKey(c) # ExpectedApiKey =>
            /\ \A b \in RegisterBodies :
                  ApiRegister(c, b) => Refused("register", b.device_id, KeyError(SuppliedKey(c)))
            /\ \A b \in SyncBodies :
                  ApiSync(c, b) => Refused("sync", b.device_id, KeyError(SuppliedKey(c)))
            /\ \A d \in DeviceIds :
                  ApiHeartbeat(c, d) => Refused("heartbeat", d, KeyError(SuppliedKey(c)))]_vars

\* A request with a wrong key was refused while a device with a log is stored.
WrongKeyRefused ==
    /\ last.code = 401 /\ last.error_code = "INVALID_API_KEY"
    /\ devices # {} /\ logs # {}

\* ------------------------------------------------------------------------
\* Operator sessions: AuthMiddleware.login and AuthMiddleware.requireAuth.

\* process.env.JWT_SECRET || 'your-secret-key'
JwtSecret == "your-secret-key"

\* expiresIn: '24h', in seconds
TokenTTL == 86400

\* jwt.sign({id, username}, secret, {expiresIn: '24h'})
Sign(user, secret) ==
    [id |-> user.id, username |-> user.username, iat |-> now, exp |-> now + TokenTTL,
     secret |-> secret]

\* Mutant: the expiry of the token is not looked at.
VerifyIgnoresExpiry(token, secret) ==
    IF token.secret # secret THEN "JsonWebTokenError" ELSE "ok"

\* jwt.verify(token, secret): the name of the error it throws, or "ok".
Verify(token, secret) ==
    IF token.secret # secret THEN "JsonWebTokenError"
    ELSE IF now >= token.exp THEN "TokenExpiredError"
    ELSE "ok"

\* A token signed by someone who does not know the secret.
ForgedToken == Sign(DefaultAdmin, "guessed-key")

\* What a request to an admin route can present.
PresentedTokens == tokens \cup {NoToken, ForgedToken}

\* Request bodies of POST /login.
Usernames == {AdminUsername, "nobody", ""}

Passwords == {AdminPassword, "letmein"}

\* SELECT ... FROM admin_users WHERE username = ?
UsersNamed(username) == {u \in admin_users : u.username = username}

\* SELECT ... FROM admin_users WHERE id = ?
UsersWithId(id) == {u \in admin_users : u.id = id}

\* The clock moves on by the lifetime of a token.
Later ==
    /\ now < MaxTime * TokenTTL
    /\ now' = now + TokenTTL
    /\ UNCHANGED <<dbType, client, accounts, store, inflight, last, received, failures, history>>

\* Account administration, done on the table directly: is_active = 0.
DisableAccount ==
    /\ \E u \in admin_users :
          /\ u.is_active
          /\ admin_users' = (admin_users \ {u}) \cup {[u EXCEPT !.is_active = FALSE]}
    /\ UNCHANGED <<dbType, client, tokens, store, now, inflight, last, received, failures, history>>

\* Account administration, done on the table directly: the row is deleted.
RemoveAccount ==
    /\ \E u \in admin_users : admin_users' = admin_users \ {u}
    /\ UNCHANGED <<dbType, client, tokens, store, now, inflight, last, received, failures, history>>

\* A response with a message.
Says(r, message) == [r EXCEPT !.message = message]

\* login up to its UPDATE: validationResult, the SELECT of the user, the checks
\* of !user and !user.is_active, bcrypt.compare.
LoginFind(username, password) ==
    /\ CanReceive
    /\ received' = received + 1
    /\ IF username = "" \/ password = ""
       THEN /\ last' = Says(Response("login", "", 400, "", "", ""), "Validation failed")
            /\ UNCHANGED <<dbType, client, accounts, store, now, inflight, failures, history>>
       ELSE \/ /\ UsersNamed(username) = {}
               /\ last' = Says(Response("login", "", 401, "", "", ""), "Invalid credentials")
               /\ UNCHANGED <<dbType, client, accounts, store, now, inflight, failures, history>>
            \/ /\ \E user \in UsersNamed(username) :
                     IF ~user.is_active
                     THEN /\ last' = Says(Response("login", "", 401, "", "", ""),
                                          "Account is disabled")
                          /\ UNCHANGED inflight
                     ELSE IF ~Compare(password, user.password_hash)
                     THEN /\ last' = Says(Response("login", "", 401, "", "", ""),
                                          "Invalid credentials")
                          /\ UNCHANGED inflight
                     ELSE /\ inflight' = Add([op |-> "login", pc |-> "update", device_id |-> "",
                                              user |-> user])
                          /\ UNCHANGED last
               /\ UNCHANGED <<dbType, client, accounts, store, now, failures, history>>
            \/ FailsAtOnce("login", "")

\* jwt.sign, UPDATE admin_users SET last_login = CURRENT_TIMESTAMP WHERE id = ?, 200
LoginUpdate(q) ==
    /\ q \in Handlers("login", "update")
    /\ \/ /\ admin_users' = {IF u.id = q.user.id THEN [u EXCEPT !.last_login = now] ELSE u :
                               u \in admin_users}
          /\ tokens' = tokens \cup {Sign(q.user, JwtSecret)}
          /\ inflight' = Remove(q)
          /\ last' = [Says(Response("login", "", 200, "", "", ""), "Login successful")
                        EXCEPT !.token = Sign(q.user, JwtSecret)]
          /\ UNCHANGED <<dbType, client, store, now, received, failures, history>>
       \/ Fails(q)

\* requireAuth: the message of its 401, or "next".  user is the set of rows its
\* SELECT returns, read only when the token verifies.
RequireAuthOutcome(token, secret) ==
    IF token = NoToken THEN "Authentication required"
    ELSE IF Verify(token, secret) = "JsonWebTokenError" THEN "Invalid token"
    ELSE IF Verify(token, secret) = "TokenExpiredError" THEN "Token expired"
    ELSE IF \A u \in UsersWithId(token.id) : ~u.is_active THEN "Invalid or expired token"
    ELSE "next"

\* ------------------------------------------------------------------------
\* getAllDevices

\* const { page = 1, limit = 50, search = '', status = 'all' } = req.query
DefaultListLimit == 50

\* The query strings of GET /devices.
Query(page, limit, search, status) ==
    [page |-> page, limit |-> limit, search |-> search, status |-> status]

Queries ==
    {Query(DefaultPage, DefaultListLimit, "", "all"),
     Query(2, 1, "", "all"),
     Query(2, DefaultListLimit, "", "all"),
     Query(DefaultPage, 1, "", "active"),
     Query(DefaultPage, DefaultListLimit, "", "inactive"),
     Query(DefaultPage, DefaultListLimit, "-X", "all"),
     Query(DefaultPage, 1, "-X", "active")}

\* LIKE compares ASCII letters without regard to case (the upper-case letters
\* of the model's data).
Lower(c) ==
    CASE c = "G" -> "g"
      [] c = "P" -> "p"
      [] c = "X" -> "x"
      [] OTHER -> c

\* text LIKE '%search%'
Like(text, search) ==
    \E i \in 1..(Len(text) - Len(search) + 1) :
       \A k \in 1..Len(search) :
          Lower(SubSeq(text, i + k - 1, i + k - 1)) = Lower(SubSeq(search, k, k))

\* Mutant: status = 'active' selects the rows whose flag is off.
MatchesInverted(x, query) ==
    /\ query.search # "" =>
          Like(x.device_id, query.search) \/ Like(x.model, query.search)
          \/ Like(x.manufacturer, query.search)
    /\ query.status # "all" => (x.is_active <=> query.status # "active")

\* whereClause: the search condition and the status condition.
Matches(x, query) ==
    /\ query.search # "" =>
          Like(x.device_id, query.search) \/ Like(x.model, query.search)
          \/ Like(x.manufacturer, query.search)
    /\ query.status # "all" => (x.is_active <=> query.status = "active")

\* The rows of devices that whereClause selects.
Matching(query) == {x \in devices : Matches(x, query)}

\* SELECT ... FROM devices <whereClause> ORDER BY last_seen DESC: every order
\* of the rows SQL may return (rows of equal last_seen in any order).
OrderedDevices(query) ==
    LET S == Matching(query)
        n == Cardinality(S)
    IN  {s \in [1..n -> S] :
            /\ \A i, j \in 1..n : i # j => s[i] # s[j]
            /\ \A i, j \in 1..n : i < j => s[i].last_seen >= s[j].last_seen}

\* Mutant: ORDER BY created_at DESC LIMIT 1.
LatestLogsByReceipt(d) ==
    IF LogRows(d) = {} THEN {<<>>}
    ELSE {<<l>> : l \in {l \in LogRows(d) : \A m \in LogRows(d) : m.created_at <= l.created_at}}

\* SELECT ... FROM device_logs WHERE device_id = ? ORDER BY timestamp DESC
\* LIMIT 1: the rows database.get may return, <<>> for no row (null of
\* mysql, undefined of sqlite).
LatestLogs(d) ==
    IF LogRows(d) = {} THEN {<<>>}
    ELSE {<<l>> : l \in {l \in LogRows(d) : \A m \in LogRows(d) : m.timestamp <= l.timestamp}}

\* data of the 200 response: devicesWithLogs and pagination, with the query
\* string of the request it answers.
ListData(query, total, items) ==
    [query |-> query,
     devices |-> [i \in 1..Len(items) |->
                    [device |-> items[i].device, latest_log |-> items[i].latest_log]],
     pagination |-> [page |-> query.page, limit |-> query.limit, total |-> total,
                     pages |-> Ceil(total, query.limit)]]

ListResponse(query, total, items) ==
    [Response("list", "", 200, "", "", "") EXCEPT !.data = ListData(query, total, items)]

\* countResult = await database.get('SELECT COUNT(*) as total FROM devices ...')
ListCount(query) ==
    /\ CanReceive
    /\ received' = received + 1
    /\ \/ /\ inflight' = Add([op |-> "list", pc |-> "page", device_id |-> "", query |-> query,
                              total |-> Cardinality(Matching(query))])
          /\ UNCHANGED <<dbType, client, accounts, store, now, last, failures, history>>
       \/ FailsAtOnce("list", "")

\* devices = await database.all(devicesQuery, [..., limit, offset]); then one
\* latest-log query per row is issued (Promise.all), none for an empty page.
ListPage(q) ==
    /\ q \in Handlers("list", "page")
    /\ \/ /\ StatementRejected(q.query.limit, (q.query.page - 1) * q.query.limit)
          /\ inflight' = Remove(q)
          /\ last' = Caught("list", "", "SQL")
          /\ UNCHANGED <<dbType, client, accounts, store, now, received, failures, history>>
       \/ /\ ~StatementRejected(q.query.limit, (q.query.page - 1) * q.query.limit)
          /\ \E s \in OrderedDevices(q.query) :
                LET rows == Page(s, q.query.limit, (q.query.page - 1) * q.query.limit)
                    items == [i \in 1..Len(rows) |->
                                [device |-> rows[i], latest_log |-> <<>>, read |-> FALSE]]
                IN  IF rows = <<>>
                    THEN /\ inflight' = Remove(q)
                         /\ last' = ListResponse(q.query, q.total, items)
                    ELSE /\ inflight' = Move(q, [op |-> "list", pc |-> "latest",
                                                 device_id |-> "", query |-> q.query,
                                                 total |-> q.total, items |-> items])
                         /\ UNCHANGED last
          /\ UNCHANGED <<dbType, client, accounts, store, now, received, failures, history>>
       \/ Fails(q)

\* latestLog = await database.get(...) of one of the rows, in whatever order
\* the store answers; after the last of them res.json(...).
ListLatest(q) ==
    /\ q \in Handlers("list", "latest")
    /\ \/ /\ \E i \in 1..Len(q.items) :
                /\ ~q.items[i].read
                /\ \E l \in LatestLogs(q.items[i].device.device_id) :
                      LET items == [q.items EXCEPT ![i].latest_log = l, ![i].read = TRUE]
                      IN  IF \A k \in 1..Len(items) : items[k].read
                          THEN /\ inflight' = Remove(q)
                               /\ last' = ListResponse(q.query, q.total, items)
                          ELSE /\ inflight' = Move(q, [q EXCEPT !.items = items])
                               /\ UNCHANGED last
          /\ UNCHANGED <<dbType, client, accounts, store, now, received, failures, history>>
       \/ Fails(q)

\* The queries of the requests served next to the device routes.
RaceQueries == {Query(DefaultPage, 1, "", "all"), Query(2, 1, "", "all")}

\* The device routes and GET /devices served side by side.
NextList ==
    \/ Tick
    \/ \E d \in DeviceIds, desc \in Descs : RegisterCheck(d, desc)
    \/ \E q \in BagToSet(inflight) : RegisterUpdate(q)
    \/ \E q \in BagToSet(inflight) : RegisterInsert(q)
    \/ \E d \in DeviceIds, p \in Payloads : SyncVerify(d, p)
    \/ \E q \in BagToSet(inflight) : SyncInsertLog(q)
    \/ \E q \in BagToSet(inflight) : SyncUpdate(q)
    \/ \E d \in DeviceIds : DeleteCheck(d)
    \/ \E q \in BagToSet(inflight) : DeleteExec(q)
    \/ \E query \in RaceQueries : ListCount(query)
    \/ \E q \in BagToSet(inflight) : ListPage(q)
    \/ \E q \in BagToSet(inflight) : ListLatest(q)

SpecList == Init /\ [][NextList]_vars

\* A row of devices as a register at server time t leaves it.
SeedDevice(id, d, t) ==
    [id |-> id, device_id |-> d,
     model |-> "Pixel 6", manufacturer |-> "Google", os_version |-> "13", app_version |-> "1.0",
     first_seen |-> t, last_seen |-> t, is_active |-> TRUE,
     created_at |-> t, updated_at |-> t]

\* A row of device_logs as a sync at server time t leaves it.
SeedLog(id, d, t) ==
    [id |-> id, device_id |-> d, battery_level |-> 85, timestamp |-> 1000, created_at |-> t]

\* Stores that registrations and syncs have filled.
SeedStores ==
    LET a == SeedDevice(1, "dev-1", 0)
        b == SeedDevice(2, "dev-x", 0)
        c == SeedDevice(2, "dev-x", 1)
        e == SeedDevice(1, "dev-x", 0)
        f == SeedDevice(2, "dev-1", 1)
    IN  {[devices |-> D, logs |-> L] :
            D \in {{}, {a}, {a, b}, {a, c}, {e, f}},
            L \in {{}, {SeedLog(1, "dev-1", 1)}}}

\* The server after registrations and syncs have stored the rows D and L.
InitWith(D, L) ==
    /\ client = FreshInstall
    /\ admin_users = {DefaultAdmin}
    /\ tokens = {}
    /\ dbType \in {"mysql", "sqlite"}
    /\ devices = D
    /\ logs = L
    /\ seq = [devices |-> Cardinality(D), device_logs |-> Cardinality(L)]
    /\ now = 1
    /\ inflight = EmptyBag
    /\ last = NoResponse
    /\ received = 0
    /\ failures = 0
    /\ created = [d \in DeviceIds |-> IF \E x \in D : x.device_id = d THEN 1 ELSE 0]
    /\ synced = [d \in DeviceIds |-> Cardinality({l \in L : l.device_id = d})]
    /\ deleted = {}

\* The server with a filled store, serving GET /devices only.
InitQuery ==
    \E st \in SeedStores :
       /\ \A l \in st.logs : \E x \in st.devices : x.device_id = l.device_id
       /\ InitWith(st.devices, st.logs)

NextQuery ==
    \/ \E query \in Queries : ListCount(query)
    \/ \E q \in BagToSet(inflight) : ListPage(q)
    \/ \E q \in BagToSet(inflight) : ListLatest(q)

SpecQuery == InitQuery /\ [][NextQuery]_vars

\* ------------------------------------------------------------------------
\* getDeviceStats

\* DATE_SUB(NOW(), INTERVAL 24 HOUR) / datetime("now", "-24 hours"), in seconds
StatsWindow == 86400

\* GROUP BY manufacturer ... LIMIT 10
TopManufacturers == 10

\* SELECT manufacturer, COUNT(*) as count FROM devices GROUP BY manufacturer
ManufacturerGroups ==
    {[manufacturer |-> m, count |-> Cardinality({x \in devices : x.manufacturer = m})] :
        m \in {x.manufacturer : x \in devices}}

\* ... ORDER BY count DESC LIMIT 10: every order SQL may return.
ByManufacturer ==
    LET S == ManufacturerGroups
        n == Cardinality(S)
    IN  {Page(s, TopManufacturers, 0) :
            s \in {s \in [1..n -> S] :
                      /\ \A i, j \in 1..n : i # j => s[i] # s[j]
                      /\ \A i, j \in 1..n : i < j => s[i].count >= s[j].count}}

\* WHERE last_seen >= <now - 24 hours> on devices
ActiveDevices == {x \in devices : x.last_seen >= now - StatsWindow}

\* Mutant: the window is applied to the client's timestamp.
RecentLogsByTimestamp == {l \in logs : l.timestamp >= now - StatsWindow}

\* WHERE created_at >= <now - 24 hours> on device_logs
RecentLogs == {l \in logs : l.created_at >= now - StatsWindow}

\* totalDevices = await database.get('SELECT COUNT(*) as count FROM devices')
StatsTotal ==
    /\ CanReceive
    /\ received' = received + 1
    /\ \/ /\ inflight' = Add([op |-> "stats", pc |-> "active", device_id |-> "",
                              total_devices |-> Cardinality(devices)])
          /\ UNCHANGED <<dbType, client, accounts, store, now, last, failures, history>>
       \/ FailsAtOnce("stats", "")

\* activeDevices = await database.get(... last_seen >= now - 24 hours)
StatsActive(q) ==
    /\ q \in Handlers("stats", "active")
    /\ \/ /\ inflight' = Move(q, [op |-> "stats", pc |-> "logs", device_id |-> "",
                                  total_devices |-> q.total_devices,
                                  active_devices |->
                                     Cardinality(ActiveDevices)])
          /\ UNCHANGED <<dbType, client, accounts, store, now, last, received, failures, history>>
       \/ Fails(q)

\* totalLogs = await database.get('SELECT COUNT(*) as count FROM device_logs')
StatsLogs(q) ==
    /\ q \in Handlers("stats", "logs")
    /\ \/ /\ inflight' = Move(q, [op |-> "stats", pc |-> "recent", device_id |-> "",
                                  total_devices |-> q.total_devices,
                                  active_devices |-> q.active_devices,
                                  total_logs |-> Cardinality(logs)])
          /\ UNCHANGED <<dbType, client, accounts, store, now, last, received, failures, history>>
       \/ Fails(q)

\* recentLogs = await database.get(... created_at >= now - 24 hours)
StatsRecent(q) ==
    /\ q \in Handlers("stats", "recent")
    /\ \/ /\ inflight' = Move(q, [op |-> "stats", pc |-> "manufacturers", device_id |-> "",
                                  total_devices |-> q.total_devices,
                                  active_devices |-> q.active_devices,
                                  total_logs |-> q.total_logs,
                                  recent_logs |->
                                     Cardinality(RecentLogs)])
          /\ UNCHANGED <<dbType, client, accounts, store, now, last, received, failures, history>>
       \/ Fails(q)

\* devicesByManufacturer = await database.all(...) -> 200
StatsManufacturers(q) ==
    /\ q \in Handlers("stats", "manufacturers")
    /\ \/ /\ \E g \in ByManufacturer :
                last' = [Response("stats", "", 200, "", "", "") EXCEPT
                           !.data = [total_devices |-> q.total_devices,
                                     active_devices |-> q.active_devices,
                                     total_logs |-> q.total_logs,
                                     recent_logs |-> q.recent_logs,
                                     devices_by_manufacturer |-> g]]
          /\ inflight' = Remove(q)
          /\ UNCHANGED <<dbType, client, accounts, store, now, received, failures, history>>
       \/ Fails(q)

\* ------------------------------------------------------------------------
\* The admin routes of routes/api.js behind requireAuth.

\* The admin routes with the :deviceId they name ("" where the route has none).
AdminRoutes ==
    {[op |-> "list", device_id |-> ""], [op |-> "stats", device_id |-> ""]}
    \cup {[op |-> o, device_id |-> "dev-1"] : o \in {"detail", "delete"}}

\* requireAuth answers 401.
Unauthorized(route, message) ==
    /\ CanReceive
    /\ received' = received + 1
    /\ last' = Says(Response(route.op, route.device_id, 401, "", "", ""), message)
    /\ UNCHANGED <<dbType, client, accounts, store, now, inflight, failures, history>>

\* router.get('/devices' | '/devices/:deviceId' | '/stats', requireAuth, handler),
\* router.delete('/devices/:deviceId', requireAuth, handler).  requireAuth's
\* SELECT of the user and the first store access of the handler it calls are
\* one step: the SELECT reads admin_users only, the handler's access the
\* device tables only, and a failure of either is answered 500.
AdminCall(route, token) ==
    IF RequireAuthOutcome(token, JwtSecret) # "next"
    THEN Unauthorized(route, RequireAuthOutcome(token, JwtSecret))
    ELSE CASE route.op = "list" ->
                 ListCount(Query(DefaultPage, DefaultListLimit, "", "all"))
           [] route.op = "detail" -> DetailDevice(route.device_id)
           [] route.op = "delete" -> DeleteCheck(route.device_id)
           [] route.op = "stats" -> StatsTotal

NextAdmin ==
    \/ Later
    \/ DisableAccount
    \/ RemoveAccount
    \/ \E username \in Usernames, password \in Passwords : LoginFind(username, password)
    \/ \E q \in BagToSet(inflight) : LoginUpdate(q)
    \/ \E route \in AdminRoutes, token \in PresentedTokens : AdminCall(route, token)
    \/ \E q \in BagToSet(inflight) : ListPage(q)
    \/ \E q \in BagToSet(inflight) : ListLatest(q)
    \/ \E q \in BagToSet(inflight) : DetailLogs(q)
    \/ \E q \in BagToSet(inflight) : DetailCount(q)
    \/ \E q \in BagToSet(inflight) : DeleteExec(q)
    \/ \E q \in BagToSet(inflight) : StatsActive(q)
    \/ \E q \in BagToSet(inflight) : StatsLogs(q)
    \/ \E q \in BagToSet(inflight) : StatsRecent(q)
    \/ \E q \in BagToSet(inflight) : StatsManufacturers(q)

\* The server with two registered devices, one of which has synced once.
InitAdmin ==
    /\ InitQuery
    /\ devices = {SeedDevice(1, "dev-1", 0), SeedDevice(2, "dev-x", 1)}
    /\ logs = {SeedLog(1, "dev-1", 1)}

SpecAdmin == InitAdmin /\ [][NextAdmin]_vars

\* A 200 response of getAllDevices.
Listed == last.op = "list" /\ last.code = 200

Offset(query) == (query.page - 1) * query.limit

(* C14: while the store does not change, a listDevices response to a query
   with page >= 1 and limit > 0 reports total = the number of devices matching
   the search and status filters, pages = the least integer with
   pages * limit >= total, and the devices at positions offset + 1 ..
   offset + limit of the matching devices ordered by last_seen descending,
   in this order: at most limit of them, none when offset is past the end. *)
ListPagination ==
    Listed =>
       LET query == last.data.query
           page == last.data.devices
           p == last.data.pagination
           n == Cardinality(Matching(query))
       IN  /\ p.page = query.page /\ p.limit = query.limit
           /\ p.total = n
           /\ p.pages * query.limit >= n /\ (p.pages - 1) * query.limit < n
           /\ Len(page) <= query.limit
           /\ Offset(query) >= n => page = <<>>
           /\ Offset(query) < n =>
                 Len(page) = IF n - Offset(query) < query.limit
                             THEN n - Offset(query) ELSE query.limit
           /\ \E s \in OrderedDevices(query) :
                 \A i \in 1..Len(page) : page[i].device = s[Offset(query) + i]

\* The second page of one device each was served from a store of two devices.
SecondPageServed ==
    /\ Listed
    /\ last.data.query.page = 2 /\ last.data.query.limit = 1
    /\ last.data.pagination.total = 2 /\ last.data.pagination.pages = 2
    /\ Len(last.data.devices) = 1
    /\ \E x \in devices : x.last_seen > last.data.devices[1].device.last_seen

\* The search strings of the requests.
Searches == {query.search : query \in Queries}

\* What a request with this search string and status matches.
MatchedBy(search, status) == Matching(Query(DefaultPage, DefaultListLimit, search, status))

(* C15 as stated: for every search filter the devices matched with
   status=active are a strict subset of those matched with status=all. *)
ActiveStrictSubset ==
    \A search \in Searches :
       /\ MatchedBy(search, "active") \subseteq MatchedBy(search, "all")
       /\ MatchedBy(search, "active") # MatchedBy(search, "all")

(* C15 as amended: for every search filter the devices matched with
   status=active are a subset of those matched with status=all, the active and
   the inactive ones partition it, and the subset is the whole set when every
   stored device has is_active set. *)
ActiveSubset ==
    \A search \in Searches :
       LET all == MatchedBy(search, "all")
           active == MatchedBy(search, "active")
           inactive == MatchedBy(search, "inactive")
       IN  /\ active \subseteq all
           /\ active \cup inactive = all
           /\ active \cap inactive = {}
           /\ active = {x \in all : x.is_active}
           /\ (\A x \in devices : x.is_active) => active = all

\* A status=active request was answered with a total that is the number of all
\* stored devices.
ActiveListServed ==
    /\ Listed
    /\ last.data.query.status = "active" /\ last.data.query.search = ""
    /\ last.data.pagination.total = Cardinality(devices)
    /\ last.data.pagination.total >= 2

(* C16: the total a listDevices response reports and the page it returns
   describe one store state, also when register or delete requests run between
   the handler's queries: the number of returned devices is at most
   max(0, min(limit, total - offset)). *)
ListDescribesOneState ==
    Listed =>
       LET query == last.data.query
           rest == last.data.pagination.total - Offset(query)
       IN  Len(last.data.devices) <=
              (IF rest < 0 THEN 0 ELSE IF rest < query.limit THEN rest ELSE query.limit)

\* The token is signed with the server's secret, has not expired, and names
\* an account that exists and is active now.
Accepted(token) ==
    /\ token.secret = JwtSecret
    /\ now < token.exp
    /\ \E u \in admin_users : u.id = token.id /\ u.is_active

(* C12: a list, detail, delete or stats request whose token is absent, not
   signed with the server's secret, expired, or names an account that is
   missing or disabled at the time of the request is answered 401, starts no
   handler and leaves devices, device_logs and admin_users as they are; so a
   token issued before its account was disabled is refused on every later
   call. *)
AdminGate ==
    [][\A route \in AdminRoutes, token \in PresentedTokens :
          (~Accepted(token) /\ received' # received /\ AdminCall(route, token)) =>
             /\ last'.op = route.op /\ last'.code = 401
             /\ UNCHANGED <<devices, logs, seq, inflight, admin_users, tokens>>]_vars

\* The only token issued is unexpired and its account is still stored but
\* disabled; a request presenting it has just been refused.
DisabledAccountRefused ==
    /\ last.code = 401 /\ last.message = "Invalid or expired token" /\ last.at = now
    /\ Cardinality(tokens) = 1
    /\ \A t \in tokens :
          now < t.exp /\ \E u \in admin_users : u.id = t.id /\ ~u.is_active

\* The stored account that a login with these credentials is entitled to.
Entitled(username, password) ==
    {u \in admin_users :
        u.username = username /\ u.is_active
        /\ u.username = AdminUsername /\ password = AdminPassword}

(* C13: a well-formed login whose store accesses succeed goes on to issue a
   token exactly when the username exists, the account is active and the
   password is the one whose hash is stored; otherwise it answers 401, issues
   no token and leaves admin_users as it is.  The successful login answers 200
   with a token and sets last_login of its account to now; last_login changes
   in no other step.  Every token issued is accepted by requireAuth as long
   as it has not expired and its account exists and is active. *)
LoginContract ==
    /\ [][/\ \A username \in Usernames \ {""}, password \in Passwords :
               (LoginFind(username, password) /\ Served) =>
                  /\ UNCHANGED <<admin_users, tokens>>
                  /\ IF Entitled(username, password) # {}
                     THEN /\ last' = last
                          /\ \E u \in Entitled(username, password) :
                                inflight' = Add([op |-> "login", pc |-> "update",
                                                 device_id |-> "", user |-> u])
                     ELSE /\ last'.op = "login" /\ last'.code = 401
                          /\ last'.token = NoToken
                          /\ inflight' = inflight
          /\ \A q \in BagToSet(inflight) :
               (LoginUpdate(q) /\ Served) =>
                  /\ last'.op = "login" /\ last'.code = 200
                  /\ last'.token.id = q.user.id /\ last'.token.secret = JwtSecret
                  /\ last'.token.exp = now + TokenTTL
                  /\ tokens' = tokens \cup {last'.token}
                  /\ \A u \in admin_users :
                        \E v \in admin_users' :
                           v = IF u.id = q.user.id THEN [u EXCEPT !.last_login = now] ELSE u
          /\ (\E u \in admin_users, v \in admin_users' :
                 u.id = v.id /\ u.last_login # v.last_login)
               => (last'.op = "login" /\ last'.code = 200 /\ last' # last)
          /\ tokens' # tokens => (last'.op = "login" /\ last'.code = 200 /\ last' # last)]_vars
    /\ [](\A t \in tokens :
             (now < t.exp /\ \E u \in admin_users : u.id = t.id /\ u.is_active)
                => RequireAuthOutcome(t, JwtSecret) = "next")

\* After a successful login an admin call with the token it returned was served.
LoginThenAdminCall ==
    /\ last.op = "stats" /\ last.code = 200
    /\ tokens # {}
    /\ \E u \in admin_users : u.is_active /\ u.last_login >= 0

\* ------------------------------------------------------------------------
\* GET /stats on a filled store, with the clock moving between its queries.

\* Devices last seen at 0 and at 1, logs received at 0 and at 1.
InitStats ==
    \E L \in {{}, {SeedLog(1, "dev-1", 0)}, {SeedLog(1, "dev-1", 0), SeedLog(2, "dev-x", 1)}} :
       InitWith({SeedDevice(1, "dev-1", 0), SeedDevice(2, "dev-x", 1)}, L)

NextStats ==
    \/ Later
    \/ StatsTotal
    \/ \E q \in BagToSet(inflight) : StatsActive(q)
    \/ \E q \in BagToSet(inflight) : StatsLogs(q)
    \/ \E q \in BagToSet(inflight) : StatsRecent(q)
    \/ \E q \in BagToSet(inflight) : StatsManufacturers(q)

SpecStats == InitStats /\ [][NextStats]_vars

\* The handler that a step of the statistics request q (none for the first
\* step) puts in flight at position pc.
StatsNext(q, pc) ==
    {h \in BagToSet(inflight') :
        h.op = "stats" /\ h.pc = pc /\ CopiesIn(h, inflight') > CopiesIn(h, inflight)}

(* C21: each query of getStats that is served counts, at its query time now:
   total_devices = all rows of devices; active_devices = the devices with
   now - last_seen <= 24 hours, whatever their is_active flag; total_logs =
   all rows of device_logs; recent_logs = the logs with now - created_at <=
   24 hours, whatever their client timestamp; the response reports the four
   counts as they were read. *)
StatsCounts ==
    [][/\ (StatsTotal /\ Served) =>
             \E h \in StatsNext("", "active") : h.total_devices = Cardinality(devices)
       /\ \A q \in BagToSet(inflight) :
            /\ (StatsActive(q) /\ Served) =>
                  \E h \in StatsNext(q, "logs") :
                     /\ h.total_devices = q.total_devices
                     /\ h.active_devices =
                           Cardinality({x \in devices : now - x.last_seen <= 24 * 60 * 60})
            /\ (StatsLogs(q) /\ Served) =>
                  \E h \in StatsNext(q, "recent") :
                     /\ h.total_devices = q.total_devices
                     /\ h.active_devices = q.active_devices
                     /\ h.total_logs = Cardinality(logs)
            /\ (StatsRecent(q) /\ Served) =>
                  \E h \in StatsNext(q, "manufacturers") :
                     /\ h.total_devices = q.total_devices
                     /\ h.active_devices = q.active_devices
                     /\ h.total_logs = q.total_logs
                     /\ h.recent_logs =
                           Cardinality({l \in logs : now - l.created_at <= 24 * 60 * 60})
            /\ (StatsManufacturers(q) /\ Served) =>
                  /\ last'.op = "stats" /\ last'.code = 200
                  /\ last'.data.total_devices = q.total_devices
                  /\ last'.data.active_devices = q.active_devices
                  /\ last'.data.total_logs = q.total_logs
                  /\ last'.data.recent_logs = q.recent_logs]_vars

\* A response that counts fewer active devices than devices and fewer recent
\* logs than logs, although every log carries the same client timestamp.
StaleRowsLeftOut ==
    /\ last.op = "stats" /\ last.code = 200
    /\ last.data.total_devices = 2 /\ last.data.active_devices = 1
    /\ last.data.total_logs = 2 /\ last.data.recent_logs = 1
    /\ \A x \in devices : x.is_active

\* ------------------------------------------------------------------------
\* POST /register and POST /sync with the configured key and bodies that
\* break one validation rule each.

KeyInHeader == [header |-> ExpectedApiKey, query |-> ""]

\* The valid body of POST /register for dev-1, with some fields replaced.
RegisterBodyWith(d, model, manufacturer) ==
    [device_id |-> d, model |-> model, manufacturer |-> manufacturer,
     os_version |-> "13", app_version |-> "1.0"]

MalformedRegisterBodies ==
    {RegisterBodyWith("", "Pixel 6", "Google"),
     RegisterBodyWith("dev-1", "", "Google"),
     RegisterBodyWith("dev-1", "Pixel 6", "")}

MalformedSyncBodies ==
    {SyncBody("dev-1", Num(850), Num(485), Num(-1225), Absent),
     SyncBody("dev-1", Num(850), Num(485), Num(-1225), Num(-10)),
     SyncBody("dev-1", Num(850), Num(485), Num(-1225), Num(15)),
     SyncBody("dev-1", Num(850), Num(485), Num(-1225), Text),
     SyncBody("dev-1", Num(1010), Num(485), Num(-1225), Num(10000)),
     SyncBody("dev-1", Num(-10), Num(485), Num(-1225), Num(10000)),
     SyncBody("dev-1", Num(850), Num(901), Num(-1225), Num(10000)),
     SyncBody("dev-1", Num(850), Num(-901), Num(-1225), Num(10000)),
     SyncBody("dev-1", Num(850), Num(485), Num(1801), Num(10000)),
     SyncBody("dev-1", Num(850), Num(485), Num(-1801), Num(10000))}

\* Bodies at the ends of the ranges, which the rules accept.
BoundarySyncBodies ==
    {SyncBody("dev-1", Num(0), Num(900), Num(-1800), Num(0)),
     SyncBody("dev-1", Num(1000), Num(-900), Num(1800), Num(10000))}

NextValidation ==
    \/ \E b \in RegisterBodies \cup MalformedRegisterBodies : ApiRegister(KeyInHeader, b)
    \/ \E q \in BagToSet(inflight) : RegisterUpdate(q)
    \/ \E q \in BagToSet(inflight) : RegisterInsert(q)
    \/ \E b \in SyncBodies \cup MalformedSyncBodies \cup BoundarySyncBodies :
          ApiSync(KeyInHeader, b)
    \/ \E q \in BagToSet(inflight) : SyncInsertLog(q)
    \/ \E q \in BagToSet(inflight) : SyncUpdate(q)

SpecValidation == Init /\ [][NextValidation]_vars

\* The sync bodies the claim speaks of.
SyncRuleBroken(b) ==
    \/ b.timestamp.is # "number"
    \/ b.timestamp.tenths < 0
    \/ b.timestamp.tenths % 10 # 0
    \/ b.battery_level.is = "number" /\ (b.battery_level.tenths < 0 \/ b.battery_level.tenths > 1000)
    \/ b.latitude.is = "number" /\ (b.latitude.tenths < -900 \/ b.latitude.tenths > 900)
    \/ b.longitude.is = "number" /\ (b.longitude.tenths < -1800 \/ b.longitude.tenths > 1800)

\* The register bodies the claim speaks of.
RegisterRuleBroken(b) == b.device_id = "" \/ b.model = "" \/ b.manufacturer = ""

\* The request is answered 400 without a store access.
Rejected400(op) ==
    /\ last'.op = op /\ last'.code = 400
    /\ UNCHANGED <<devices, logs, seq, inflight, failures>>

(* C22: a sync request (with the configured key) whose timestamp is missing,
   negative or not an integer, or whose battery_level, latitude or longitude
   is outside its range, and a register request with an empty device_id, model
   or manufacturer, is answered 400 with no store access: devices and
   device_logs keep their rows, no handler is left waiting on the store and
   no storage failure can occur. *)
MalformedRejected ==
    [][/\ \A b \in SyncBodies \cup MalformedSyncBodies \cup BoundarySyncBodies :
            (SyncRuleBroken(b) /\ ApiSync(KeyInHeader, b)) => Rejected400("sync")
       /\ \A b \in RegisterBodies \cup MalformedRegisterBodies :
            (RegisterRuleBroken(b) /\ ApiRegister(KeyInHeader, b)) => Rejected400("register")]_vars

\* A malformed sync for a registered device with a log has just been refused,
\* and the device's last_seen is older than the refusal.
MalformedSyncRefused ==
    /\ last.op = "sync" /\ last.code = 400 /\ last.device_id = "dev-1"
    /\ LogRows("dev-1") # {}
    /\ \E x \in DeviceRows("dev-1") : x.last_seen <= last.at

\* ------------------------------------------------------------------------
\* Paging arguments out of range

\* page and limit of requests that ask for no page a store has: page 0,
\* limit 0, a negative limit; and of one that asks well.
OddPagings ==
    {[page |-> 0, limit |-> DefaultListLimit],
     [page |-> DefaultPage, limit |-> 0],
     [page |-> DefaultPage, limit |-> -1],
     [page |-> 2, limit |-> 1]}

\* A store of two devices and the logs of one of them.
InitPaging ==
    InitWith({SeedDevice(1, "dev-1", 0), SeedDevice(2, "dev-x", 1)},
             {SeedLog(1, "dev-1", 0), SeedLog(2, "dev-1", 1)})

\* GET /devices and GET /devices/:deviceId with such arguments.
NextPaging ==
    \/ \E g \in OddPagings : ListCount(Query(g.page, g.limit, "", "all"))
    \/ \E q \in BagToSet(inflight) : ListPage(q)
    \/ \E q \in BagToSet(inflight) : ListLatest(q)
    \/ \E g \in OddPagings : DetailRequest("dev-1", g.page, g.limit)
    \/ \E q \in BagToSet(inflight) : DetailLogs(q)
    \/ \E q \in BagToSet(inflight) : DetailCount(q)

SpecPaging == InitPaging /\ [][NextPaging]_vars

\* page and limit of the request a 200 of list or detail answers.
AnsweredPaging ==
    IF last.op = "list" THEN [page |-> last.data.pagination.page,
                              limit |-> last.data.pagination.limit,
                              pages |-> last.data.pagination.pages]
    ELSE [page |-> last.data.page, limit |-> last.data.limit, pages |-> last.pages]

PagedAnswer == last.op \in {"list", "detail"} /\ last.code = 200

\* C23: list and detail never answer 200 to a request with page < 1 or
\* limit <= 0: in every 200 the offset (page - 1) * limit is >= 0 and pages
\* is a non-negative integer.
PagingValidated ==
    PagedAnswer =>
        /\ AnsweredPaging.page >= 1
        /\ AnsweredPaging.limit > 0
        /\ (AnsweredPaging.page - 1) * AnsweredPaging.limit >= 0
        /\ AnsweredPaging.pages \in Nat

\* ------------------------------------------------------------------------
\* getDeviceDetails on a filled store

\* A row of device_logs as a sync at server time t with the client's
\* timestamp leaves it.
SeedLogAt(id, d, t, timestamp) ==
    [id |-> id, device_id |-> d, battery_level |-> 85, timestamp |-> timestamp, created_at |-> t]

\* page and limit of the requests for a device's logs.
DetailPagings ==
    {[page |-> DefaultPage, limit |-> DefaultLimit],
     [page |-> DefaultPage, limit |-> 2],
     [page |-> 2, limit |-> 1],
     [page |-> 2, limit |-> 2]}

\* dev-1 has synced three times, the client's clock not following the
\* server's; dev-x is not registered, or has synced once.
InitDetail ==
    \E st \in {[devices |-> {SeedDevice(1, "dev-1", 0)}, logs |-> {}],
               [devices |-> {SeedDevice(1, "dev-1", 0), SeedDevice(2, "dev-x", 1)},
                logs |-> {SeedLogAt(4, "dev-x", 1, 2500)}]} :
       InitWith(st.devices,
                st.logs \cup {SeedLogAt(1, "dev-1", 0, 3000), SeedLogAt(2, "dev-1", 1, 500),
                              SeedLogAt(3, "dev-1", 1, 2000)})

NextDetail ==
    \/ \E d \in DeviceIds, g \in DetailPagings : DetailRequest(d, g.page, g.limit)
    \/ \E q \in BagToSet(inflight) : DetailLogs(q)
    \/ \E q \in BagToSet(inflight) : DetailCount(q)

SpecDetail == InitDetail /\ [][NextDetail]_vars

\* The handler that a step of the detail request q puts in flight at pc.
DetailNext(q, pc) ==
    {h \in BagToSet(inflight') :
        h.op = "detail" /\ h.pc = pc /\ CopiesIn(h, inflight') > CopiesIn(h, inflight)}

\* rows is the slice [offset, offset + limit) of the rows S in some order of
\* descending client timestamp.
SliceByTimestamp(rows, S, limit, offset) ==
    LET n == Cardinality(S)
        P == {rows[i] : i \in 1..Len(rows)}
        size == IF offset >= n THEN 0 ELSE IF offset + limit > n THEN n - offset ELSE limit
    IN  /\ P \subseteq S
        /\ Len(rows) = size
        /\ Cardinality(P) = Len(rows)
        /\ \A i, j \in 1..Len(rows) : i < j => rows[i].timestamp >= rows[j].timestamp
        /\ rows # <<>> =>
              \E B \in SUBSET (S \ P) :
                 /\ Cardinality(B) = offset
                 /\ \A b \in B : b.timestamp >= rows[1].timestamp
                 /\ \A a \in (S \ P) \ B : a.timestamp <= rows[Len(rows)].timestamp

(* C26: getDeviceDetail of a device that has a row reads the slice
   [(page-1)*limit, (page-1)*limit + limit) of that device's logs, and of no
   other device's, in descending order of the client's timestamp (not of the
   time of receipt), and answers 200 with that slice, total = the number of
   the device's logs and pages = ceil(total / limit); of a device_id without
   a row it answers 404. *)
DetailContract ==
    [][/\ \A d \in DeviceIds, g \in DetailPagings :
            (DetailRequest(d, g.page, g.limit) /\ Served) =>
               IF \E x \in devices : x.device_id = d
               THEN \E h \in DetailNext("", "logs") :
                       h.device_id = d /\ h.page = g.page /\ h.limit = g.limit
               ELSE last'.op = "detail" /\ last'.code = 404 /\ last'.device_id = d
       /\ \A q \in BagToSet(inflight) :
            /\ (DetailLogs(q) /\ Served) =>
                  \E h \in DetailNext(q, "count") :
                     /\ h.device_id = q.device_id /\ h.page = q.page /\ h.limit = q.limit
                     /\ SliceByTimestamp(h.logs, {l \in logs : l.device_id = q.device_id},
                                         q.limit, (q.page - 1) * q.limit)
            /\ (DetailCount(q) /\ Served) =>
                  LET total == Cardinality({l \in logs : l.device_id = q.device_id})
                  IN  /\ last'.op = "detail" /\ last'.code = 200
                      /\ last'.device_id = q.device_id
                      /\ last'.logs = q.logs
                      /\ last'.total = total
                      /\ last'.pages * q.limit >= total
                      /\ (last'.pages - 1) * q.limit < total
                      /\ last'.pages >= 0]_vars

\* The second page of two of dev-1's three logs: the one log with the oldest
\* client timestamp, which is not the one received first.
OldestLogOnSecondPage ==
    /\ last.op = "detail" /\ last.code = 200 /\ last.device_id = "dev-1"
    /\ last.data.page = 2 /\ last.data.limit = 2
    /\ last.total = 3 /\ last.pages = 2
    /\ Len(last.logs) = 1
    /\ last.logs[1].timestamp = 500 /\ last.logs[1].created_at = 1
    /\ \E l \in logs : l.device_id = "dev-x"

\* ------------------------------------------------------------------------
\* latest_log of the listed devices

\* dev-1 has synced twice, the later sync carrying the older client
\* timestamp; dev-x has not synced, or once.
InitLatest ==
    \E L \in {{}, {SeedLogAt(3, "dev-x", 1, 4000)}} :
       InitWith({SeedDevice(1, "dev-1", 0), SeedDevice(2, "dev-x", 1)},
                L \cup {SeedLogAt(1, "dev-1", 0, 3000), SeedLogAt(2, "dev-1", 1, 500)})

SpecLatest == InitLatest /\ [][NextQuery]_vars

(* C27: every device of a list response carries as latest_log the log of
   that device, and of no other, with the greatest client timestamp, and no
   log when the device has none. *)
LatestLogOfEachDevice ==
    Listed =>
       \A i \in 1..Len(last.data.devices) :
          LET item == last.data.devices[i]
              S == {l \in logs : l.device_id = item.device.device_id}
          IN  IF S = {} THEN item.latest_log = <<>>
              ELSE /\ Len(item.latest_log) = 1
                   /\ item.latest_log[1] \in S
                   /\ \A m \in S : m.timestamp <= item.latest_log[1].timestamp

\* A list of both devices: dev-1 with the log of the greatest client
\* timestamp, which is not the one received last, dev-x without a log while
\* dev-1 has logs.
LatestByClientTimestamp ==
    /\ Listed
    /\ Len(last.data.devices) = 2
    /\ \E i, j \in 1..2 :
          /\ last.data.devices[i].device.device_id = "dev-1"
          /\ last.data.devices[i].latest_log = <<SeedLogAt(1, "dev-1", 0, 3000)>>
          /\ last.data.devices[j].device.device_id = "dev-x"
          /\ last.data.devices[j].latest_log = <<>>

\* ------------------------------------------------------------------------
\* Order of the listed devices

(* C28: the devices of a list response are in descending order of last_seen,
   and devices of equal last_seen in the order of their insertion (ascending
   id), so that the pages of an unchanged store neither repeat nor skip a
   device. *)
ListOrderedWithTies ==
    Listed =>
       \A i, j \in 1..Len(last.data.devices) :
          i < j =>
             LET x == last.data.devices[i].device
                 y == last.data.devices[j].device
             IN  \/ x.last_seen > y.last_seen
                 \/ x.last_seen = y.last_seen /\ x.id < y.id

\* ------------------------------------------------------------------------
\* The Android client

\* deviceHelper.getDeviceId() of the client's device.
ClientDeviceId == "dev-1"

\* @POST("api/register") Call<ApiResponse> registerDevice(@Body DeviceInfo):
\* no @Header("X-API-Key"), and RetrofitClient's interceptor adds none.
ClientRegisterCredentials == [header |-> "", query |-> ""]

\* syncDeviceData(@Header("X-API-Key") apiKey, ...) with
\* prefs.getString(KEY_API_KEY, DEFAULT_API_KEY).
ClientSyncCredentials == [header |-> "rdm-client-key-2024", query |-> ""]

\* MainActivity.registerDevice: the DeviceInfo of this device.
ClientRegister(desc) ==
    ApiRegister(ClientRegisterCredentials,
                [device_id |-> ClientDeviceId, model |-> desc.model,
                 manufacturer |-> desc.manufacturer, os_version |-> desc.os_version,
                 app_version |-> desc.app_version])

\* DataSyncWorker.doWork: collectDeviceInfo, syncWithBackend.
ClientSync(p) ==
    ApiSync(ClientSyncCredentials,
            SyncBody(ClientDeviceId, Num(10 * p.battery_level), Num(485), Num(0),
                     Num(10 * p.timestamp)))

\* The client, next to a device that registers and syncs with the key.
NextClient ==
    \/ Tick
    \/ \E desc \in Descs : ClientRegister(desc)
    \/ \E p \in Payloads : ClientSync(p)
    \/ \E desc \in Descs :
          ApiRegister(KeyInHeader, RegisterBodyWith("dev-x", desc.model, desc.manufacturer))
    \/ \E q \in BagToSet(inflight) : RegisterUpdate(q)
    \/ \E q \in BagToSet(inflight) : RegisterInsert(q)
    \/ \E p \in Payloads :
          ApiSync(KeyInHeader,
                  SyncBody("dev-x", Num(10 * p.battery_level), Absent, Absent,
                           Num(10 * p.timestamp)))
    \/ \E q \in BagToSet(inflight) : SyncInsertLog(q)
    \/ \E q \in BagToSet(inflight) : SyncUpdate(q)

SpecClient == Init /\ [][NextClient]_vars

(* C29: the registration request of the Android client passes the key gate
   of POST /api/register (it is not answered 401), so that the client's
   device gets its row and the client's syncs are not answered
   DEVICE_NOT_FOUND. *)
ClientRegistrationAccepted ==
    [][\A desc \in Descs : ClientRegister(desc) => last'.code # 401]_vars

\* ------------------------------------------------------------------------
\* Dashboard pages

\* const mockReq = { query: { page, search, status, limit: 20 } }
DevicesPageLimit == 20

\* const mockReq = { params: { deviceId }, query: { page, limit: 50 } }
DetailsPageLimit == 50

\* Views that res.render sends, with the status set on res before.
View(name, code, title) == [view |-> name, code |-> code, title |-> title]

\* What mockRes.status(code) of a page does: the views it renders on res and
\* what it returns.  The devices page's returns mockRes; the details page's
\* renders the 404 view for 404 and returns undefined for every code.
MockStatus(op, code) ==
    IF op = "list" THEN [views |-> <<>>, returns |-> "mockRes"]
    ELSE IF code = 404
         THEN [views |-> <<View("error", 404, "Device Not Found")>>, returns |-> "undefined"]
         ELSE [views |-> <<>>, returns |-> "undefined"]

\* What mockRes.json(data) of a page does: render the page from data.data;
\* a failure envelope has no data, data.data.devices throws a TypeError.
MockJson(op, code) ==
    IF code = 200
    THEN [views |-> <<View(IF op = "list" THEN "devices" ELSE "device-details", 200, "")>>,
          thrown |-> FALSE]
    ELSE [views |-> <<>>, thrown |-> TRUE]

\* res.status(code).json(data) on mockRes: .json of undefined throws.
MockStatusJson(op, code) ==
    LET st == MockStatus(op, code)
        js == MockJson(op, code)
    IN  IF st.returns = "undefined" THEN [views |-> st.views, thrown |-> TRUE]
        ELSE [views |-> st.views \o js.views, thrown |-> js.thrown]

\* The controller called with mockRes, answering r: res.json(...) for 200;
\* res.status(404).json(...) inside its try, and on a throw the catch's
\* res.status(500).json(...); res.status(500).json(...) in the catch after a
\* storage failure.
ControllerOnMock(r) ==
    IF r.code = 200 THEN MockJson(r.op, 200)
    ELSE IF r.code = 404
    THEN LET first == MockStatusJson(r.op, 404)
             again == MockStatusJson(r.op, 500)
         IN  IF first.thrown
             THEN [views |-> first.views \o again.views, thrown |-> again.thrown]
             ELSE first
    ELSE MockStatusJson(r.op, 500)

\* The page route's try/catch around the controller: what it renders on res
\* for the controller's answer r.
Rendered(r) ==
    LET m == ControllerOnMock(r)
    IN  IF m.thrown THEN Append(m.views, View("error", 500, "Error")) ELSE m.views

\* router.get('/devices', requireAuth, ...) of the dashboard
DevicesPage(page, search, status) == ListCount(Query(page, DevicesPageLimit, search, status))

\* router.get('/devices/:deviceId', requireAuth, ...) of the dashboard
DeviceDetailsPage(d, page) == DetailRequest(d, page, DetailsPageLimit)

\* dev-1 is registered and has synced, dev-x is not registered.
InitDashboard ==
    InitWith({SeedDevice(1, "dev-1", 0)}, {SeedLogAt(1, "dev-1", 1, 3000)})

\* The pages requested by an operator; last is the answer the controller
\* hands to the page's mockRes.
NextDashboard ==
    \/ \E page \in {DefaultPage, 2}, status \in {"all", "active"} : DevicesPage(page, "", status)
    \/ \E q \in BagToSet(inflight) : ListPage(q)
    \/ \E q \in BagToSet(inflight) : ListLatest(q)
    \/ \E d \in DeviceIds, page \in {DefaultPage, 2} : DeviceDetailsPage(d, page)
    \/ \E q \in BagToSet(inflight) : DetailLogs(q)
    \/ \E q \in BagToSet(inflight) : DetailCount(q)

SpecDashboard == InitDashboard /\ [][NextDashboard]_vars

(* C30: a request for the devices page or the device-details page renders
   exactly one view: the page itself on success, the 404 'Device Not Found'
   view and nothing else for a device_id without a row, the generic error
   view once when the controller fails. *)
OneViewPerPage ==
    last.op \in {"list", "detail"} =>
       /\ Len(Rendered(last)) = 1
       /\ last.code = 404 => Rendered(last)[1] = View("error", 404, "Device Not Found")
       /\ last.code = 500 => Rendered(last)[1] = View("error", 500, "Error")
       /\ last.code = 200 => Rendered(last)[1].code = 200

\* ------------------------------------------------------------------------
\* Storage failures

\* Every operation of the server on a store that holds dev-1 and a log of it.
NextFailure ==
    \/ \E d \in DeviceIds : RegisterCheck(d, DescOf(SeedDevice(1, d, 0)))
    \/ \E q \in BagToSet(inflight) : RegisterUpdate(q)
    \/ \E q \in BagToSet(inflight) : RegisterInsert(q)
    \/ \E p \in Payloads : SyncVerify("dev-1", p)
    \/ \E q \in BagToSet(inflight) : SyncInsertLog(q)
    \/ \E q \in BagToSet(inflight) : SyncUpdate(q)
    \/ Heartbeat("dev-1")
    \/ DeleteCheck("dev-1")
    \/ \E q \in BagToSet(inflight) : DeleteExec(q)
    \/ ListCount(Query(DefaultPage, DefaultListLimit, "", "all"))
    \/ \E q \in BagToSet(inflight) : ListPage(q)
    \/ \E q \in BagToSet(inflight) : ListLatest(q)
    \/ DetailDevice("dev-1")
    \/ \E q \in BagToSet(inflight) : DetailLogs(q)
    \/ \E q \in BagToSet(inflight) : DetailCount(q)
    \/ StatsTotal
    \/ \E q \in BagToSet(inflight) : StatsActive(q)
    \/ \E q \in BagToSet(inflight) : StatsLogs(q)
    \/ \E q \in BagToSet(inflight) : StatsRecent(q)
    \/ \E q \in BagToSet(inflight) : StatsManufacturers(q)
    \/ LoginFind(AdminUsername, AdminPassword)
    \/ \E q \in BagToSet(inflight) : LoginUpdate(q)

SpecFailure == InitWith({SeedDevice(1, "dev-1", 0)}, {SeedLog(1, "dev-1", 1)}) /\ [][NextFailure]_vars

\* The operations the claim names.
PublicOperations == {"register", "sync", "heartbeat", "list", "detail", "delete", "stats", "login"}

(* C24: a storage failure at any store access of register, sync, heartbeat,
   list, detail, delete, stats or login is answered by the handler's one
   response: 500 with the fixed message 'Internal server error', not the
   storage error's text; the handler ends with it (a request just received
   is answered at once, a handler in flight leaves the handlers in flight). *)
StorageFailureAnswered ==
    [][failures' # failures =>
          /\ last'.op \in PublicOperations
          /\ last'.code = 500
          /\ last'.message = "Internal server error"
          /\ last'.message # last'.err
          /\ \/ received' = received + 1 /\ inflight' = inflight
             \/ /\ received' = received
                /\ \E q \in BagToSet(inflight) :
                      /\ q.op = last'.op
                      /\ inflight' = inflight (-) SetToBag({q})]_vars

\* A sync whose UPDATE failed after its INSERT was served: the one request
\* received is answered 500 and its log is stored.
SyncFailedAfterInsert ==
    /\ last.op = "sync" /\ last.code = 500 /\ last.message = "Internal server error"
    /\ failures = 1
    /\ received = 1
    /\ inflight = EmptyBag
    /\ Cardinality(logs) = 2

\* ------------------------------------------------------------------------
\* Operations on different devices

\* A row without the id that the store's shared autoincrement counter gave it.
IdFree(x) == [x EXCEPT !.id = 0]

\* The rows D2, L2 of device a after the step of its handler q, computed from
\* a's rows D, L before the step, the handler and the clock alone.
LocalEffect(a, q, D, L, D2, L2) ==
    CASE q.op = "register" ->
            /\ L2 = L
            /\ IF q.found THEN D2 = {RegisterUpdateRow(x, q.desc) : x \in D}
               ELSE IF D # {} THEN D2 = D
               ELSE {IdFree(x) : x \in D2} = {IdFree(NewDeviceRow(a, q.desc))}
      [] q.op = "sync" /\ q.pc = "insert" ->
            /\ D2 = D
            /\ IF ForeignKeysEnforced /\ D = {} THEN L2 = L
               ELSE /\ L \subseteq L2
                    /\ Cardinality(L2) = Cardinality(L) + 1
                    /\ \A l \in L2 \ L : IdFree(l) = IdFree(NewLogRow(a, q.payload))
      [] q.op = "sync" /\ q.pc = "update" ->
            /\ L2 = L
            /\ D2 = {SyncUpdateRow(x) : x \in D}
      [] q.op = "delete" ->
            /\ D2 = {}
            /\ L2 = IF ForeignKeysEnforced THEN {} ELSE L
      [] OTHER -> D2 = D /\ L2 = L

\* The step is one of handler q, in flight before it.
StepOf(q) == CopiesIn(q, inflight') < CopiesIn(q, inflight)

(* C25: a step of a register, sync or delete handler for a device a that no
   storage failure interrupts makes of a's device row and logs what follows
   from a's rows, the request and the clock alone, whatever the rows and
   requests of other devices, and leaves the rows of every other device
   unchanged; so does a heartbeat; and no other step changes a's rows.  Only
   the store-assigned id of a new row depends on the inserts made for other
   devices. *)
DevicesIndependent ==
    [][/\ \A q \in BagToSet(inflight) :
            (StepOf(q) /\ Served) =>
               /\ LocalEffect(q.device_id, q, DeviceRows(q.device_id), LogRows(q.device_id),
                              RowsAfter(q.device_id), LogsAfter(q.device_id))
               /\ \A b \in DeviceIds \ {q.device_id} :
                     RowsAfter(b) = DeviceRows(b) /\ LogsAfter(b) = LogRows(b)
       /\ \A a \in DeviceIds :
            (Heartbeat(a) /\ Served) =>
               /\ RowsAfter(a) = {HeartbeatUpdateRow(x) : x \in DeviceRows(a)}
               /\ logs' = logs
               /\ \A b \in DeviceIds \ {a} : RowsAfter(b) = DeviceRows(b)
       /\ \A a \in DeviceIds :
            (RowsAfter(a) # DeviceRows(a) \/ LogsAfter(a) # LogRows(a)) =>
               \/ \E q \in BagToSet(inflight) : q.device_id = a /\ StepOf(q)
               \/ Heartbeat(a)]_vars

\* dev-1 was registered while a sync of dev-x was between its two writes:
\* dev-x's log is stored, dev-1's row has the second id.
RegisteredBesideOtherSync ==
    /\ last.op = "register" /\ last.code = 201 /\ last.device_id = "dev-1"
    /\ \E q \in BagToSet(inflight) : q.op = "sync" /\ q.device_id = "dev-x" /\ q.pc = "update"
    /\ LogRows("dev-x") # {}
    /\ \E x \in DeviceRows("dev-1") : x.id = 2

\* ------------------------------------------------------------------------
\* Lifecycle timestamps

(* C31: the server clock not running backwards, every device row has
   first_seen <= last_seen in every reachable state, and no step of a
   register, sync or heartbeat (or any other step) leaves a row of a
   device_id with a last_seen earlier than a row of that device_id had
   before the step. *)
LastSeenMonotonic ==
    /\ [](\A x \in devices : x.first_seen <= x.last_seen)
    /\ [][/\ now' >= now
          /\ \A x \in devices, y \in devices' :
                y.device_id = x.device_id => y.last_seen >= x.last_seen]_vars

\* A sync answered after the clock moved: the device was last seen later
\* than first.
SeenLaterThanFirst ==
    /\ last.op = "sync" /\ last.code = 200
    /\ \E x \in DeviceRows(last.device_id) : x.first_seen < x.last_seen /\ x.last_seen = now

\* ------------------------------------------------------------------------
\* What a sync does to the device row

SyncOnlyLastSeenAndActive(x, y) == y = [x EXCEPT !.last_seen = now, !.is_active = TRUE]

SyncLastSeenActiveAndUpdatedAt(x, y) ==
    /\ [y EXCEPT !.updated_at = x.updated_at] = [x EXCEPT !.last_seen = now, !.is_active = TRUE]
    /\ y.updated_at \in {x.updated_at, now}
    /\ (dbType = "sqlite" => y.updated_at = x.updated_at)

(* C32 as stated: the steps of a sync create and remove no device row, and
   change of the device's row only last_seen and is_active. *)
SyncChangesOnlyLastSeenAndActive ==
    [][\A q \in BagToSet(inflight) :
          /\ (SyncInsertLog(q) /\ Served) => devices' = devices
          /\ (SyncUpdate(q) /\ Served) => OnlyRowsOf(q.device_id, SyncOnlyLastSeenAndActive)]_vars

(* C32 as amended: the steps of a sync create and remove no device row; the
   sync sets last_seen to the server time and is_active, and on MySQL only
   also updated_at (ON UPDATE CURRENT_TIMESTAMP); model, manufacturer,
   os_version, app_version, first_seen and created_at of the row, and every
   other row, are unchanged. *)
SyncFrame ==
    [][\A q \in BagToSet(inflight) :
          /\ (SyncInsertLog(q) /\ Served) => devices' = devices
          /\ (SyncUpdate(q) /\ Served) =>
                /\ OnlyRowsOf(q.device_id, SyncLastSeenActiveAndUpdatedAt)
                /\ \A x \in DeviceRows(q.device_id) :
                      \E y \in RowsAfter(q.device_id) :
                         /\ DescOf(y) = DescOf(x)
                         /\ y.first_seen = x.first_seen
                         /\ y.created_at = x.created_at]_vars

\* A sync on MySQL answered after the clock moved: the row keeps its
\* first_seen and carries the time of the sync in last_seen and updated_at.
SyncAdvancedUpdatedAt ==
    /\ last.op = "sync" /\ last.code = 200
    /\ dbType = "mysql"
    /\ \E x \in DeviceRows(last.device_id) :
          x.first_seen < x.last_seen /\ x.updated_at = x.last_seen /\ x.created_at = x.first_seen

\* ------------------------------------------------------------------------
\* A device_id registered again after its delete

\* dev-1 is registered and has synced once; it is then deleted, registered
\* and synced in any order.
NextReuse ==
    \/ \E desc \in Descs : RegisterCheck("dev-1", desc)
    \/ \E q \in BagToSet(inflight) : RegisterUpdate(q)
    \/ \E q \in BagToSet(inflight) : RegisterInsert(q)
    \/ \E p \in Payloads : SyncVerify("dev-1", p)
    \/ \E q \in BagToSet(inflight) : SyncInsertLog(q)
    \/ \E q \in BagToSet(inflight) : SyncUpdate(q)
    \/ DeleteCheck("dev-1")
    \/ \E q \in BagToSet(inflight) : DeleteExec(q)

SpecReuse ==
    InitWith({SeedDevice(1, "dev-1", 0)}, {SeedLog(1, "dev-1", 0)}) /\ [][NextReuse]_vars

(* C33: the register that creates again a device_id that was deleted is
   answered 201 'registered', the new row's first_seen is the time of that
   register, and the device has no log: none of the logs written before the
   delete belongs to it. *)
ReRegisteredStartsEmpty ==
    [][\A q \in BagToSet(inflight) :
          (RegisterInsert(q) /\ q.device_id \in deleted /\ last'.code = 201) =>
             /\ last'.status = "registered"
             /\ \A x \in RowsAfter(q.device_id) : x.first_seen = now
             /\ LogsAfter(q.device_id) = {}]_vars

\* ------------------------------------------------------------------------
\* getDeviceStats beside the device routes

\* GET /stats served while devices register, sync and are deleted.
NextStatsRace ==
    \/ \E d \in DeviceIds, desc \in Descs : RegisterCheck(d, desc)
    \/ \E q \in BagToSet(inflight) : RegisterUpdate(q)
    \/ \E q \in BagToSet(inflight) : RegisterInsert(q)
    \/ \E p \in Payloads : SyncVerify("dev-1", p)
    \/ \E q \in BagToSet(inflight) : SyncInsertLog(q)
    \/ \E q \in BagToSet(inflight) : SyncUpdate(q)
    \/ DeleteCheck("dev-1")
    \/ \E q \in BagToSet(inflight) : DeleteExec(q)
    \/ StatsTotal
    \/ \E q \in BagToSet(inflight) : StatsActive(q)
    \/ \E q \in BagToSet(inflight) : StatsLogs(q)
    \/ \E q \in BagToSet(inflight) : StatsRecent(q)
    \/ \E q \in BagToSet(inflight) : StatsManufacturers(q)

SpecStatsRace == Init /\ [][NextStatsRace]_vars

\* The sum of the counts of the groups g.
RECURSIVE SumOfCounts(_)
SumOfCounts(g) == IF g = <<>> THEN 0 ELSE g[1].count + SumOfCounts(Tail(g))

(* C34: in every 200 of getStats, active_devices <= total_devices,
   recent_logs <= total_logs and the counts of devices_by_manufacturer sum
   to at most total_devices, also when register, sync and delete requests
   run between the handler's five queries. *)
StatsConsistent ==
    (last.op = "stats" /\ last.code = 200) =>
       /\ last.data.active_devices <= last.data.total_devices
       /\ last.data.recent_logs <= last.data.total_logs
       /\ SumOfCounts(last.data.devices_by_manufacturer) <= last.data.total_devices

\* ------------------------------------------------------------------------
\* The Android client: DataSyncWorker, MainActivity's monitoring switch and
\* BootReceiver. client.scheduled says that WorkManager holds the unique
\* periodic work WORK_NAME; client.log is the last of the lines the switch
\* and the receiver write to the log.

\* The client's clock moves on.
ClientTick ==
    /\ client.clock < MaxClock
    /\ client' = [client EXCEPT !.clock = @ + 1]
    /\ UNCHANGED server

\* What call.execute() gives syncWithBackend: a response with the status and
\* the success field of its JSON body ("none": no body), or an exception.
Answers ==
    {[kind |-> "response", code |-> c, json |-> j] :
        c \in {200, 204, 400, 401, 404, 500}, j \in {"success", "failure", "none"}}
    \cup {[kind |-> k, code |-> 0, json |-> "none"] : k \in {"IOException", "Exception"}}

\* response.isSuccessful(): the status is in [200, 300).
IsSuccessful(a) == a.code >= 200 /\ a.code < 300

\* response.body(): the parsed body of a successful response that has one.
ResponseBody(a) == IF IsSuccessful(a) /\ a.code # 204 THEN a.json ELSE "none"

\* syncWithBackend returns true on every successful response.
SyncWithBackendAnySuccessful(a) == a.kind = "response" /\ IsSuccessful(a)

\* syncWithBackend: true for a successful response with a body whose success
\* is true; false for any other response and for any exception.
SyncWithBackend(a) ==
    /\ a.kind = "response"
    /\ IsSuccessful(a)
    /\ ResponseBody(a) # "none"
    /\ ResponseBody(a) = "success"

\* doWork's Result. collected: collectDeviceInfo returned a DeviceInfo (it
\* returns null on any exception); thrown: a statement of doWork's own, which
\* runs once the sync has succeeded, throws.
DoWorkResult(collected, a, thrown) ==
    IF ~collected THEN "retry"
    ELSE IF ~SyncWithBackend(a) THEN "retry"
    ELSE IF thrown THEN "failure"
    ELSE "success"

WorkName == "DataSyncWork"

\* The works that run DataSyncWorker: the periodic one and performManualSync's.
Works == {WorkName, "OneTimeWork"}

\* WorkManager runs DataSyncWorker.doWork.
DoWork(work, collected, a, thrown) ==
    /\ work = WorkName => client.scheduled
    /\ client' = [client EXCEPT
                     !.result = DoWorkResult(collected, a, thrown),
                     !.last_sync = IF DoWorkResult(collected, a, thrown) = "success"
                                   THEN client.clock ELSE @]
    /\ UNCHANGED server

\* startMonitoring: enqueueUniquePeriodicWork(WORK_NAME, REPLACE, ..), then the flag.
StartMonitoring(c) ==
    [c EXCEPT !.scheduled = TRUE, !.monitoring_active = TRUE, !.log = "started"]

\* stopMonitoring: cancelUniqueWork(WORK_NAME), then the flag.
StopMonitoring(c) ==
    [c EXCEPT !.scheduled = FALSE, !.monitoring_active = FALSE, !.log = "stopped"]

\* The monitoring button.
ToggleMonitoring ==
    /\ client' = IF client.monitoring_active THEN StopMonitoring(client)
                                             ELSE StartMonitoring(client)
    /\ UNCHANGED server

\* The broadcasts the system delivers to BootReceiver.
Broadcasts == {"BOOT_COMPLETED", "MY_PACKAGE_REPLACED", "PACKAGE_REPLACED", "TIME_SET"}

\* The receiver schedules the work whatever the flag says.
RestartAlways(c, action) == [c EXCEPT !.scheduled = TRUE, !.log = "restarted"]

\* BootReceiver.onReceive with restartMonitoring. WorkManager keeps its works
\* over a reboot and over a package replacement.
Restart(c, action) ==
    IF action \in {"BOOT_COMPLETED", "MY_PACKAGE_REPLACED", "PACKAGE_REPLACED"}
    THEN IF c.monitoring_active
         THEN [c EXCEPT !.scheduled = TRUE, !.log = "restarted"]
         ELSE [c EXCEPT !.log = "skipped"]
    ELSE c

OnReceive(action) ==
    /\ client' = Restart(client, action)
    /\ UNCHANGED server

NextWorker ==
    \/ ClientTick
    \/ ToggleMonitoring
    \/ \E action \in Broadcasts : OnReceive(action)
    \/ \E work \in Works, collected \in BOOLEAN, a \in Answers, thrown \in BOOLEAN :
          DoWork(work, collected, a, thrown)

SpecWorker == Init /\ [][NextWorker]_vars

\* The server accepted the sync whose answer is a.
SyncAccepted(a) ==
    a.kind = "response" /\ a.code \in 200..299 /\ a.code # 204 /\ a.json = "success"

(* C35: doWork returns success, and writes last_sync, only when the server
   answered the sync with a 2xx response whose body has success = true (and
   then last_sync is the time of the run); it returns retry, leaving
   last_sync as it was, when the device info could not be collected or the
   sync was rejected or failed on the network; it returns failure only when
   an unexpected exception is thrown, and never writes last_sync then. *)
WorkerContract ==
    [][\A work \in Works, collected \in BOOLEAN, a \in Answers, thrown \in BOOLEAN :
          DoWork(work, collected, a, thrown) =>
             /\ client'.result \in {"success", "retry", "failure"}
             /\ client'.result = "success" =>
                   collected /\ SyncAccepted(a) /\ client'.last_sync = client.clock
             /\ client'.last_sync # client.last_sync => client'.result = "success"
             /\ (~collected \/ ~SyncAccepted(a)) =>
                   client'.result = "retry" /\ client'.last_sync = client.last_sync
             /\ client'.result = "failure" =>
                   thrown /\ client'.last_sync = client.last_sync
             /\ (collected /\ SyncAccepted(a) /\ ~thrown) => client'.result = "success"]_vars

\* A run after a successful one was told to retry and kept the earlier last_sync.
RetriedAfterSuccess ==
    /\ client.result = "retry"
    /\ client.last_sync > 0
    /\ client.last_sync < client.clock

(* C36: the monitoring_active preference is true exactly when the unique
   periodic work DataSyncWork is scheduled, after any toggles and broadcasts:
   a toggle flips both, and BootReceiver leaves the work scheduled exactly
   when the flag is true, never scheduling it when monitoring was stopped. *)
MonitoringFlagMatchesWork ==
    /\ [](client.monitoring_active <=> client.scheduled)
    /\ [][ToggleMonitoring =>
             /\ client'.monitoring_active = ~client.monitoring_active
             /\ client'.scheduled = ~client.scheduled]_vars
    /\ [][\A action \in Broadcasts :
             OnReceive(action) =>
                /\ client'.monitoring_active = client.monitoring_active
                /\ client'.scheduled <=> client.monitoring_active]_vars

\* The receiver re-scheduled the work of a monitoring that was on.
RestartedAfterBoot ==
    /\ client.log = "restarted"
    /\ client.monitoring_active
    /\ client.scheduled
    /\ client.result # "none"

\* ------------------------------------------------------------------------
\* Logout: POST /api/logout of routes/api.js and GET /logout of the dashboard.

LogoutRoute == [op |-> "logout", device_id |-> ""]

\* The logout disables the account of the token it was called with.
ApiLogoutDisabling(token) ==
    /\ CanReceive
    /\ received' = received + 1
    /\ admin_users' = {IF u.id = token.id THEN [u EXCEPT !.is_active = FALSE] ELSE u :
                          u \in admin_users}
    /\ last' = Says(Response("logout", "", 200, "", "", ""), "Logged out successfully")
    /\ UNCHANGED <<dbType, client, tokens, store, now, inflight, failures, history>>

\* router.post('/logout', requireAuth, (req, res) => res.json({success: true, ..})).
\* The one store access is requireAuth's SELECT of the user.
ApiLogout(token) ==
    IF RequireAuthOutcome(token, JwtSecret) # "next"
    THEN Unauthorized(LogoutRoute, RequireAuthOutcome(token, JwtSecret))
    ELSE /\ CanReceive
         /\ received' = received + 1
         /\ \/ /\ last' = Says(Response("logout", "", 200, "", "", ""),
                               "Logged out successfully")
               /\ UNCHANGED <<dbType, client, accounts, store, now, inflight, failures, history>>
            \/ FailsAtOnce("logout", "")

\* router.get('/logout'): res.clearCookie('token'); res.redirect('/login').
\* The cookie is the browser's; the server keeps nothing about it.
DashboardLogout ==
    /\ CanReceive
    /\ received' = received + 1
    /\ last' = Says(Response("dashboard-logout", "", 302, "", "", ""), "/login")
    /\ UNCHANGED <<dbType, client, accounts, store, now, inflight, failures, history>>

\* Logins, logouts, account administration, the passing of time, and one
\* route behind requireAuth.
NextSession ==
    \/ Later
    \/ DisableAccount
    \/ RemoveAccount
    \/ \E username \in Usernames, password \in Passwords : LoginFind(username, password)
    \/ \E q \in BagToSet(inflight) : LoginUpdate(q)
    \/ \E token \in PresentedTokens : ApiLogout(token)
    \/ DashboardLogout
    \/ \E token \in PresentedTokens :
          AdminCall([op |-> "delete", device_id |-> "dev-1"], token)
    \/ \E q \in BagToSet(inflight) : DeleteExec(q)

SpecSession == InitAdmin /\ [][NextSession]_vars

\* requireAuth lets a request with token t through.
AcceptedNow(t) == RequireAuthOutcome(t, JwtSecret) = "next"

(* C37: a logout (POST /api/logout or the dashboard's GET /logout) changes
   no server state, so every token requireAuth accepted before it is accepted
   after it; a token stops being accepted only when it expires or when its
   operator account is disabled or removed. *)
LogoutKeepsTokens ==
    /\ [][\A token \in PresentedTokens :
             (received' # received /\ (ApiLogout(token) \/ DashboardLogout)) =>
                /\ UNCHANGED <<accounts, store, now, inflight, history>>
                /\ \A t \in tokens : AcceptedNow(t) => AcceptedNow(t)']_vars
    /\ [][\A t \in tokens :
             (AcceptedNow(t) /\ ~AcceptedNow(t)') =>
                \/ now' > now /\ now' >= t.exp
                \/ /\ \E u \in admin_users : u.id = t.id /\ u.is_active
                   /\ \A u \in admin_users' : u.id = t.id => ~u.is_active]_vars

\* A logout was answered 200 and the token of the session is still accepted.
AcceptedAfterLogout ==
    /\ last.op = "logout"
    /\ last.code = 200
    /\ \E t \in tokens : AcceptedNow(t)

\* ------------------------------------------------------------------------
\* The answers of login to a wrong password.

\* The body names a user and a password that is not the password of any
\* account of that name.
WrongPassword(username, password) ==
    /\ username # ""
    /\ password # ""
    /\ \A u \in UsersNamed(username) : ~Compare(password, u.password_hash)

(* C38: the answer to a login that does not supply the correct password is
   the same whatever the state of the named account: as a username that
   does not exist is answered 401 'Invalid credentials', every wrong-password
   login that the store serves is answered 401 'Invalid credentials'. *)
WrongPasswordAnswerUniform ==
    [][\A username \in Usernames, password \in Passwords :
          (LoginFind(username, password) /\ WrongPassword(username, password)
             /\ failures' = failures) =>
             (last'.code = 401 /\ last'.message = "Invalid credentials")]_vars

============================================================================
